---- MODULE Spec2Model ----
(***************************************************************************)
(* Model of BarrettAutomate (src/barrett_calculator.py): the batch loop    *)
(* process_all_patients, the page steps it drives, and the result          *)
(* extractor (_extract_refraction_from_table with its textual fallback     *)
(* _extract_refraction_alternative).                                       *)
(*                                                                         *)
(* src/barrett_calculator_single.py is the same program with another       *)
(* input_patient_data, another backup suffix, and the patient's name read  *)
(* with row.get; the variable variant says which of the two scripts runs.  *)
(* Its columns go by other names (PatientName for 'Patient Name', ...);    *)
(* the model names the columns as barrett_calculator_single.py does.       *)
(*                                                                         *)
(* Texts are TLA+ strings, read character by character with SubSeq.       *)
(* Python floats are modelled as exact decimals [m, e] = m * 10^-e, kept   *)
(* normalised (no trailing fractional zero), so 1.250 and 1.25 are equal.  *)
(* The input sets hold no pair of values whose difference is exactly the   *)
(* tolerance and whose binary rounding would decide the comparison the     *)
(* other way.                                                              *)
(*                                                                         *)
(* The Japanese sentinel texts are written character for character in      *)
(* ASCII: K=kei(計) S=san(算) N=nyuu(入) L=ryoku(力) E=e(エ) R=ra(ラ)      *)
(* ~=chouon(ー).                                                           *)
(***************************************************************************)
EXTENDS Integers, Sequences, FiniteSets, TLC

VARIABLES
    pc,                 \* control position of the running call
    caller,             \* "batch": process_all_patients; "unit": a direct call of the extractor
                        \* or of input_patient_data; "main": main of automate_apacrs.py
    df,                 \* the loaded frame: a sequence of rows, each [iol |-> its 'IOL Power' cell]
    hasName,            \* whether the frame has a 'Patient Name' column
    index,              \* the row being processed (1-based), 0 before the loop
    Barrett,            \* the result column of the frame, one cell per row
    successful_count,
    error_count,
    browser,            \* "none", "open", "closed"
    page,               \* the rendered page the current row sees
    target,             \* target_iol_power of the current extraction
    input_ok,           \* what input_patient_data returned for the current row
    barrett_value,      \* what the extractor / calculate_and_get_result returned
    exc,                \* the message of the exception being handled for the current row
    steps,              \* the page operations done for the current row, in order
    history,            \* one entry per row whose outcome has been recorded: what happened
    saved,              \* the result column handed to save_patient_data, NotSaved before
    raised,             \* the step whose exception left process_all_patients, "no" if none
    variant,            \* the script that runs: "multi" (barrett_calculator.py),
                        \* "single" (barrett_calculator_single.py) or "apacrs"
                        \* (automate_apacrs.py)
    results_file_path,  \* self.results_file_path: the name of the results file
    files,              \* the files of the working directory: name |-> contents
    error,              \* the exception that left the call, NoError if none
    form,               \* the text typed into the fields of the page's form for the current row
    navigations         \* the rows page.goto has been called for, in order

vars == <<pc, caller, df, hasName, index, Barrett, successful_count, error_count, browser,
          page, target, input_ok, barrett_value, exc, steps, history, saved, raised,
          variant, results_file_path, files, error, form, navigations>>

-----------------------------------------------------------------------------
(* Texts *)

Char(s, i) == SubSeq(s, i, i)

Digits == {"0", "1", "2", "3", "4", "5", "6", "7", "8", "9"}

Whitespace == {" ", "\n", "\t"}

IsDigitAt(s, i) == i >= 1 /\ i <= Len(s) /\ Char(s, i) \in Digits

DigitVal(c) ==
    CASE c = "0" -> 0 [] c = "1" -> 1 [] c = "2" -> 2 [] c = "3" -> 3 [] c = "4" -> 4
      [] c = "5" -> 5 [] c = "6" -> 6 [] c = "7" -> 7 [] c = "8" -> 8 [] c = "9" -> 9

DigitChar(d) == Char("0123456789", d + 1)

Min(a, b) == IF a <= b THEN a ELSE b

Abs(x) == IF x < 0 THEN -x ELSE x

RECURSIVE Pow10(_)
Pow10(k) == IF k = 0 THEN 1 ELSE 10 * Pow10(k - 1)

\* str.strip(): leading and trailing whitespace removed
RECURSIVE LStrip(_)
LStrip(s) == IF Len(s) > 0 /\ Char(s, 1) \in Whitespace THEN LStrip(Tail(s)) ELSE s

RECURSIVE RStrip(_)
RStrip(s) ==
    IF Len(s) > 0 /\ Char(s, Len(s)) \in Whitespace
    THEN RStrip(SubSeq(s, 1, Len(s) - 1)) ELSE s

Strip(s) == LStrip(RStrip(s))

\* `sub in s`: the start positions of the literal occurrences of sub in s
Occurrences(sub, s) ==
    {p \in 1..(Len(s) - Len(sub) + 1) : SubSeq(s, p, p + Len(sub) - 1) = sub}

Contains(sub, s) == Occurrences(sub, s) # {}

SetMin(S) == CHOOSE x \in S : \A y \in S : x <= y

\* s[i-1:]: the text from position i on
Rest(s, i) == IF i > Len(s) THEN "" ELSE SubSeq(s, i, Len(s))

-----------------------------------------------------------------------------
(* Floats as exact decimals *)

None == [none |-> TRUE]

RECURSIVE Dec(_, _)
Dec(m, e) == IF e > 0 /\ m % 10 = 0 THEN Dec(m \div 10, e - 1) ELSE [m |-> m, e |-> e]

\* a - b
DecSub(a, b) ==
    LET e == IF a.e >= b.e THEN a.e ELSE b.e
    IN  Dec(a.m * Pow10(e - a.e) - b.m * Pow10(e - b.e), e)

DecAbs(a) == [m |-> Abs(a.m), e |-> a.e]

\* a < b
DecLt(a, b) ==
    LET e == IF a.e >= b.e THEN a.e ELSE b.e
    IN  a.m * Pow10(e - a.e) < b.m * Pow10(e - b.e)

\* the value of a run of digits
RECURSIVE DigitsVal(_)
DigitsVal(s) ==
    IF Len(s) = 0 THEN 0
    ELSE 10 * DigitsVal(SubSeq(s, 1, Len(s) - 1)) + DigitVal(Char(s, Len(s)))

\* float(text) for a text of the shape -?\d+\.?\d*
ToFloat(text) ==
    LET neg   == Len(text) > 0 /\ Char(text, 1) = "-"
        body  == IF neg THEN Tail(text) ELSE text
        dots  == Occurrences(".", body)
        dot   == IF dots = {} THEN Len(body) + 1 ELSE SetMin(dots)
        whole == SubSeq(body, 1, dot - 1)
        frac  == SubSeq(body, dot + 1, Len(body))
        mag   == DigitsVal(whole) * Pow10(Len(frac)) + DigitsVal(frac)
    IN  Dec(IF neg THEN -mag ELSE mag, Len(frac))

\* the decimal digits of a natural number
RECURSIVE NatStr(_)
NatStr(n) == IF n < 10 THEN DigitChar(n) ELSE NatStr(n \div 10) \o DigitChar(n % 10)

\* the digits of n, left-padded with zeros to width w
RECURSIVE PadStr(_, _)
PadStr(n, w) == IF w = 0 THEN "" ELSE PadStr(n \div 10, w - 1) \o DigitChar(n % 10)

\* str(x) of a float x: at least one fractional digit ("25.0", "21.5", "22.05")
FloatStr(x) ==
    LET mag  == Abs(x.m)
        sign == IF x.m < 0 THEN "-" ELSE ""
    IN  IF x.e = 0 THEN sign \o NatStr(mag) \o ".0"
        ELSE sign \o NatStr(mag \div Pow10(x.e)) \o "." \o PadStr(mag % Pow10(x.e), x.e)

-----------------------------------------------------------------------------
(* Regular expressions of the extractor *)

NoMatch == [matched |-> FALSE]

\* the last position of the run of digits that starts at i (i - 1 when there is none)
RECURSIVE DigitRunEnd(_, _)
DigitRunEnd(s, i) == IF IsDigitAt(s, i) THEN DigitRunEnd(s, i + 1) ELSE i - 1

\* -?\d+\.?\d* (signed) or \d+\.?\d* anchored at position i, greedy:
\* the last position matched, 0 when the pattern does not match at i
NumberEndAt(s, i, signed) ==
    LET k == IF signed /\ i <= Len(s) /\ Char(s, i) = "-" THEN i + 1 ELSE i
    IN  IF ~IsDigitAt(s, k) THEN 0
        ELSE LET d == DigitRunEnd(s, k)
             IN  IF d + 1 <= Len(s) /\ Char(s, d + 1) = "." THEN DigitRunEnd(s, d + 2) ELSE d

\* re.search of the number pattern in s: the leftmost match
NumberSearch(s, signed) ==
    LET starts == {i \in 1..Len(s) : NumberEndAt(s, i, signed) # 0}
    IN  IF starts = {} THEN NoMatch
        ELSE LET i == SetMin(starts)
             IN  [matched |-> TRUE, start |-> i, text |-> SubSeq(s, i, NumberEndAt(s, i, signed))]

\* mutant: a first cell without digits read as 0
IolSearchZero(s) ==
    IF NumberSearch(s, FALSE).matched THEN NumberSearch(s, FALSE)
    ELSE [matched |-> TRUE, start |-> 1, text |-> "0"]

\* mutant: the first-cell pattern with an optional sign
IolSearchSigned(s) == NumberSearch(s, TRUE)

\* re.search(r'(\d+\.?\d*)', s)
IolSearch(s) == NumberSearch(s, FALSE)

\* mutant: re.match, the pattern anchored at the start of the text
RefractionSearchAnchored(s) ==
    IF NumberEndAt(s, 1, TRUE) = 0 THEN NoMatch
    ELSE [matched |-> TRUE, start |-> 1, text |-> SubSeq(s, 1, NumberEndAt(s, 1, TRUE))]

\* mutant: the pattern cut to (-?\d+), the fraction lost
RefractionSearchInteger(s) ==
    LET m == NumberSearch(s, TRUE)
        k == IF m.matched /\ Char(s, m.start) = "-" THEN m.start + 1 ELSE 0
    IN  IF ~m.matched THEN NoMatch
        ELSE [matched |-> TRUE, start |-> m.start,
              text |-> SubSeq(s, m.start, DigitRunEnd(s, IF k = 0 THEN m.start ELSE k))]

\* re.search(r'(-?\d+\.?\d*)', s)
RefractionSearch(s) == NumberSearch(s, TRUE)

-----------------------------------------------------------------------------
(* The result extractor *)

\* abs(iol_power - target_iol_power) < 0.1
Tolerance == Dec(1, 1)

\* mutant: the comparison written <= 0.1
WithinToleranceNonStrict(iol_power, target_iol_power) ==
    ~DecLt(Tolerance, DecAbs(DecSub(iol_power, target_iol_power)))

WithinTolerance(iol_power, target_iol_power) ==
    DecLt(DecAbs(DecSub(iol_power, target_iol_power)), Tolerance)

\* mutant: the result read from the second cell, the table shape without "Optic"
RowScanSecondCell(cells, target_iol_power) ==
    IF Len(cells) >= 3
    THEN LET iol_match == IolSearch(Strip(cells[1]))
         IN  IF ~iol_match.matched THEN [kind |-> "continue"]
             ELSE IF WithinTolerance(ToFloat(iol_match.text), target_iol_power)
                  THEN LET refraction_match == RefractionSearch(Strip(cells[2]))
                       IN  IF refraction_match.matched
                           THEN [kind |-> "return", value |-> ToFloat(refraction_match.text)]
                           ELSE [kind |-> "continue"]
                  ELSE [kind |-> "continue"]
    ELSE [kind |-> "continue"]

\* mutant: either table shape accepted, the result read from the last of two
\* or more cells
RowScanTwoCells(cells, target_iol_power) ==
    IF Len(cells) >= 2
    THEN LET iol_match == IolSearch(Strip(cells[1]))
         IN  IF ~iol_match.matched THEN [kind |-> "continue"]
             ELSE IF WithinTolerance(ToFloat(iol_match.text), target_iol_power)
                  THEN LET refraction_match == RefractionSearch(Strip(cells[Len(cells)]))
                       IN  IF refraction_match.matched
                           THEN [kind |-> "return", value |-> ToFloat(refraction_match.text)]
                           ELSE [kind |-> "continue"]
                  ELSE [kind |-> "continue"]
    ELSE [kind |-> "continue"]

\* mutant: a row within tolerance ends the scan even when its result cell
\* holds no number
RowScanNearReturns(cells, target_iol_power) ==
    IF Len(cells) >= 3
    THEN LET iol_match == IolSearch(Strip(cells[1]))
         IN  IF ~iol_match.matched THEN [kind |-> "continue"]
             ELSE IF WithinTolerance(ToFloat(iol_match.text), target_iol_power)
                  THEN LET refraction_match == RefractionSearch(Strip(cells[3]))
                       IN  IF refraction_match.matched
                           THEN [kind |-> "return", value |-> ToFloat(refraction_match.text)]
                           ELSE [kind |-> "return", value |-> None]
                  ELSE [kind |-> "continue"]
    ELSE [kind |-> "continue"]

\* the body of the loop over table rows, for the td cells of one row:
\* the value to return, or "continue"
RowScan(cells, target_iol_power) ==
    IF Len(cells) >= 3
    THEN LET iol_match == IolSearch(Strip(cells[1]))
         IN  IF ~iol_match.matched THEN [kind |-> "continue"]
             ELSE IF WithinTolerance(ToFloat(iol_match.text), target_iol_power)
                  THEN LET refraction_match == RefractionSearch(Strip(cells[3]))
                       IN  IF refraction_match.matched
                           THEN [kind |-> "return", value |-> ToFloat(refraction_match.text)]
                           ELSE [kind |-> "continue"]
                  ELSE [kind |-> "continue"]
    ELSE [kind |-> "continue"]

\* mutant: the loop keeps the last matching row instead of returning at the first
RECURSIVE TableScanLast(_, _, _)
TableScanLast(rows, k, target_iol_power) ==
    IF k > Len(rows) THEN [kind |-> "exhausted"]
    ELSE IF rows[k].detached THEN [kind |-> "raise"]
    ELSE LET r == RowScan(rows[k].cells, target_iol_power)
             later == TableScanLast(rows, k + 1, target_iol_power)
         IN  IF later.kind # "exhausted" \/ r.kind # "return" THEN later
             ELSE [kind |-> "return", value |-> r.value, row |-> k]

\* the loop over table rows from row k on: "return" with the value and the row
\* it came from, "raise" when a row cannot be read, "exhausted" when the loop ends
RECURSIVE TableScan(_, _, _)
TableScan(rows, k, target_iol_power) ==
    IF k > Len(rows) THEN [kind |-> "exhausted"]
    ELSE IF rows[k].detached THEN [kind |-> "raise"]
    ELSE LET r == RowScan(rows[k].cells, target_iol_power)
         IN  IF r.kind = "return"
             THEN [kind |-> "return", value |-> r.value, row |-> k]
             ELSE TableScan(rows, k + 1, target_iol_power)

\* a pattern text matched at position p of s; "." matches any character
\* (re.DOTALL), every other character of an interpolated float is literal
PatternAt(pat, s, p) ==
    /\ p + Len(pat) - 1 <= Len(s)
    /\ \A j \in 1..Len(pat) : Char(pat, j) = "." \/ Char(pat, j) = Char(s, p + j - 1)

PatternStarts(pat, s) == {p \in 1..Len(s) : PatternAt(pat, s, p)}

\* rf'{target_iol_power}.*?(-?\d+\.?\d*)': the capture of the first match.
\* A later start leaves a shorter rest, so the first match starts at the
\* leftmost place the target text matches, and the lazy .*? stops at the first
\* number in the rest.
Pattern1(t, s) ==
    LET ps == PatternStarts(t, s)
    IN  IF ps = {} THEN NoMatch
        ELSE RefractionSearch(Rest(s, SetMin(ps) + Len(t)))

\* rf'>{target_iol_power}<.*?(-?\d+\.?\d*)'
Pattern2(t, s) == Pattern1(">" \o t \o "<", s)

RECURSIVE SkipWhitespace(_, _)
SkipWhitespace(s, i) ==
    IF i <= Len(s) /\ Char(s, i) \in Whitespace THEN SkipWhitespace(s, i + 1) ELSE i

\* rf'{target_iol_power}\s*</td>.*?(-?\d+\.?\d*)</td>'
Pattern3(t, s) ==
    LET closes(i) == i + 4 <= Len(s) /\ SubSeq(s, i, i + 4) = "</td>"
        ps == {p \in PatternStarts(t, s) : closes(SkipWhitespace(s, p + Len(t)))}
    IN  IF ps = {} THEN NoMatch
        ELSE LET from == SkipWhitespace(s, SetMin(ps) + Len(t)) + 5
                 qs   == {q \in from..Len(s) :
                             /\ NumberEndAt(s, q, TRUE) # 0
                             /\ closes(NumberEndAt(s, q, TRUE) + 1)}
             IN  IF qs = {} THEN NoMatch
                 ELSE [matched |-> TRUE, start |-> SetMin(qs),
                       text |-> SubSeq(s, SetMin(qs), NumberEndAt(s, SetMin(qs), TRUE))]

\* mutant: the three patterns tried in the reverse order
TextualFallbackReversed(t, s) ==
    IF Pattern3(t, s).matched THEN Pattern3(t, s)
    ELSE IF Pattern2(t, s).matched THEN Pattern2(t, s)
    ELSE Pattern1(t, s)

\* the loop over the three patterns: the first capture of the first pattern that matches
TextualFallback(t, s) ==
    IF Pattern1(t, s).matched THEN Pattern1(t, s)
    ELSE IF Pattern2(t, s).matched THEN Pattern2(t, s)
    ELSE Pattern3(t, s)

\* re.search(r'(-?\d+\.?\d*)\s*$', row_text.strip())
TrailingNumber(s) ==
    LET qs == {q \in 1..Len(s) : NumberEndAt(s, q, TRUE) = Len(s)}
    IN  IF qs = {} THEN NoMatch
        ELSE [matched |-> TRUE, start |-> SetMin(qs), text |-> SubSeq(s, SetMin(qs), Len(s))]

\* mutant: the loop over the highlighted rows ended at the first row that
\* contains the target, whether or not its text ends in a number
RECURSIVE HighlightedScanFirstContaining(_, _, _)
HighlightedScanFirstContaining(highlighted_rows, k, t) ==
    IF k > Len(highlighted_rows) THEN None
    ELSE LET row_text == highlighted_rows[k]
             refraction_match == TrailingNumber(Strip(row_text))
         IN  IF Contains(t, row_text)
             THEN IF refraction_match.matched THEN ToFloat(refraction_match.text) ELSE None
             ELSE HighlightedScanFirstContaining(highlighted_rows, k + 1, t)

\* the loop over the highlighted rows from row k on
RECURSIVE HighlightedScan(_, _, _)
HighlightedScan(highlighted_rows, k, t) ==
    IF k > Len(highlighted_rows) THEN None
    ELSE LET row_text == highlighted_rows[k]
             refraction_match == TrailingNumber(Strip(row_text))
         IN  IF Contains(t, row_text) /\ refraction_match.matched
             THEN ToFloat(refraction_match.text)
             ELSE HighlightedScan(highlighted_rows, k + 1, t)

\* _extract_refraction_alternative(page, target_iol_power)
ExtractRefractionAlternative(pg, target_iol_power) ==
    IF pg.fault = "content" THEN None
    ELSE LET m == TextualFallback(FloatStr(target_iol_power), pg.markup)
         IN  IF m.matched THEN ToFloat(m.text)
             ELSE IF pg.fault = "highlighted" THEN None
             ELSE HighlightedScan(pg.highlighted, 1, FloatStr(target_iol_power))

-----------------------------------------------------------------------------
(* Pages, frames and messages the model draws from *)

\* the longest table the extractor is called on
MaxTableRows == 2

\* the longest frame the batch is run on
MaxRows == 2

SeqsUpTo(S, n) == UNION {[1..k -> S] : k \in 0..n}

Row(cells) == [cells |-> cells, detached |-> FALSE]

\* a row whose element has gone from the page: reading its cells raises
DetachedRow == [cells |-> <<>>, detached |-> TRUE]

RECURSIVE RenderCells(_)
RenderCells(cells) ==
    IF cells = <<>> THEN ""
    ELSE "<td>" \o Head(cells) \o "</td>" \o RenderCells(Tail(cells))

RECURSIVE RenderRows(_)
RenderRows(rows) ==
    IF rows = <<>> THEN ""
    ELSE "<tr>" \o RenderCells(Head(rows).cells) \o "</tr>" \o RenderRows(Tail(rows))

\* the markup of a page that shows the table
Render(rows) == "<table>" \o RenderRows(rows) \o "</table>"

MockContent == "<html><body>Mock content</body></html>"

\* first cells with the value each one stands for (None: no numeric substring)
FirstCells ==
    { [text |-> "21.0",      value |-> Dec(21, 0)],
      [text |-> "21.05",     value |-> Dec(2105, 2)],
      [text |-> "21.099",    value |-> Dec(21099, 3)],
      [text |-> "21.1",      value |-> Dec(211, 1)],
      [text |-> "21.15",     value |-> Dec(2115, 2)],
      [text |-> "20.85",     value |-> Dec(2085, 2)],
      [text |-> "20.9",      value |-> Dec(209, 1)],
      [text |-> "20.95",     value |-> Dec(2095, 2)],
      [text |-> "21.45",     value |-> Dec(2145, 2)],
      [text |-> "21.5",      value |-> Dec(215, 1)],
      [text |-> " 21.5 D",   value |-> Dec(215, 1)],
      [text |-> "22.0",      value |-> Dec(22, 0)],
      [text |-> "0.05",      value |-> Dec(5, 2)],
      [text |-> "invalid",   value |-> None],
      [text |-> "IOL Power", value |-> None],
      [text |-> "",          value |-> None] }

\* result cells with the value each one stands for
ResultCells ==
    { [text |-> "1.25",    value |-> Dec(125, 2)],
      [text |-> "1.75",    value |-> Dec(175, 2)],
      [text |-> "-2.75",   value |-> Dec(-275, 2)],
      [text |-> "0.00",    value |-> Dec(0, 0)],
      [text |-> "+1.50",   value |-> Dec(15, 1)],
      [text |-> "invalid", value |-> None],
      [text |-> "Refraction", value |-> None],
      [text |-> "",        value |-> None] }

Targets == {Dec(21, 0), Dec(215, 1), Dec(2205, 2), Dec(25, 0), Dec(0, 0)}

\* rows the longer tables are built from
TableRows ==
    { Row(<<"21.5", "Biconvex", "1.25">>),
      Row(<<"22.0", "Biconvex", "1.75">>),
      Row(<<"21.45", "Biconvex", "-2.75">>),
      Row(<<"21.5", "Biconvex", "invalid">>),
      Row(<<"IOL Power", "Optic", "Refraction">>),
      Row(<<"21.5", "0.5">>),
      Row(<<"21.5">>),
      Row(<<>>),
      DetachedRow }

\* rows with a cell that starts with the decimal point
BareFractionRows ==
    { Row(<<"21.5", "Biconvex", ".5">>),
      Row(<<".5", "Biconvex", "1.25">>) }

\* rows whose first cell carries a minus sign or stands for zero
SignedRows ==
    { Row(<<"-21.5", "Biconvex", "1.25">>),
      Row(<<"-0.1", "Biconvex", "1.75">>),
      Row(<<"0.0", "Biconvex", "-2.75">>) }

\* targets on both sides of zero
SignedTargets == {Dec(215, 1), Dec(-215, 1), Dec(1, 1), Dec(-1, 1)}

Markups ==
    { MockContent,
      "<tr><td>21.5</td><td>Biconvex</td><td>1.25</td></tr>",
      "21.50 D\n<b>1.25</b>",
      "A2105 -0.5",
      "<td>21.5</td><td>2 mm</td><td>1.25</td>" }

Highlighted ==
    { <<>>,
      <<"21.5 Biconvex 1.75">>,
      <<"IOL Power", " 25.0 Toric -0.5\n">>,
      <<"21.5 Biconvex n/a", "21.5 Toric 0.25">> }

PageFaults == {"none", "table_rows", "content", "highlighted"}

\* the text inputs of the calculator's form: Doctor Name, Patient Name, Patient ID,
\* Lens Factor, A Constant, then five measurements for the right and the left eye in turn
FormInputs == 15

ExtractorPage(rows, markup, highlighted, fault) ==
    [rows |-> rows, markup |-> markup, highlighted |-> highlighted, fault |-> fault,
     input |-> "ok", text_inputs |-> FormInputs, bad_inputs |-> {},
     calculate |-> "visible", universal |-> "visible"]

\* direct calls of the extractor: every first cell against every result cell
\* and target; the longer tables on the page that shows them or on one that
\* does not; and the short tables with every markup, highlight and fault
ExtractorCalls ==
    { [page |-> ExtractorPage(<<Row(<<v.text, "Biconvex", r.text>>)>>, MockContent, <<>>, "none"),
       target |-> t] : v \in FirstCells, r \in ResultCells, t \in Targets }
    \cup
    { [page |-> ExtractorPage(rows, m, <<>>, "none"), target |-> t] :
         rows \in SeqsUpTo(TableRows, MaxTableRows),
         m \in {MockContent},
         t \in {Dec(215, 1), Dec(2205, 2), Dec(25, 0)} }
    \cup
    { [page |-> ExtractorPage(rows, Render(rows), <<>>, "none"), target |-> t] :
         rows \in SeqsUpTo(TableRows, MaxTableRows),
         t \in {Dec(215, 1), Dec(2205, 2), Dec(25, 0)} }
    \cup
    { [page |-> ExtractorPage(rows, m, h, f), target |-> t] :
         rows \in SeqsUpTo(TableRows, 1), m \in Markups, h \in Highlighted,
         f \in PageFaults, t \in {Dec(215, 1), Dec(25, 0)} }
    \cup
    { [page |-> ExtractorPage(<<r>>, MockContent, <<>>, "none"), target |-> t] :
         r \in BareFractionRows, t \in {Dec(215, 1), Dec(5, 1), Dec(5, 0)} }
    \cup
    { [page |-> ExtractorPage(rows, MockContent, <<>>, "none"), target |-> t] :
         rows \in SeqsUpTo(SignedRows, MaxTableRows), t \in SignedTargets }

BasePage ==
    LET rows == <<Row(<<"21.5", "Biconvex", "1.25">>), Row(<<"22.0", "Biconvex", "1.75">>)>>
    IN  ExtractorPage(rows, Render(rows), <<>>, "none")

EmptyPage == ExtractorPage(<<>>, MockContent, <<>>, "none")

\* the pages a row of the batch may be shown: the page that works, one whose
\* load wait raises, one whose Axial Length input raises, one without text
\* inputs, and pages whose buttons or results fail
BatchPages ==
    { BasePage,
      [BasePage EXCEPT !.input = "page_raises"],
      [BasePage EXCEPT !.bad_inputs = {5}],
      [BasePage EXCEPT !.text_inputs = 0],
      [BasePage EXCEPT !.calculate = "hidden"],
      [BasePage EXCEPT !.calculate = "raises"],
      [BasePage EXCEPT !.universal = "hidden"],
      [BasePage EXCEPT !.universal = "raises"],
      [BasePage EXCEPT !.fault = "table_rows"],
      [BasePage EXCEPT !.rows = <<DetachedRow>>],
      EmptyPage,
      [EmptyPage EXCEPT !.markup = "<tr><td>21.5</td><td>Biconvex</td><td>-2.75</td></tr>"],
      [EmptyPage EXCEPT !.highlighted = <<"21.5 Biconvex 1.75">>],
      [EmptyPage EXCEPT !.fault = "content"],
      [EmptyPage EXCEPT !.fault = "highlighted"] }

\* an 'IOL Power' cell that float() rejects
BadCell == [text |-> "abc"]

Frames == SeqsUpTo({[iol |-> Dec(215, 1)], [iol |-> Dec(25, 0)], [iol |-> BadCell]}, MaxRows)

KeyErrorMessage == "'Patient Name'"

FloatErrorMessage == "could not convert string to float: 'abc'"

\* messages of the exceptions page.goto raises: short, 50 and 51 characters long
GotoErrors ==
    { "",
      "Timeout 30000ms exceeded.",
      "net::ERR_NAME_NOT_RESOLVED at https://calc.apacrs.",
      "net::ERR_NAME_NOT_RESOLVED at https://calc.apacrs.o" }

NaN == [nan |-> TRUE]

NotSaved == [saved |-> FALSE]

NoPage == [page |-> FALSE]

-----------------------------------------------------------------------------
(* Result cells *)

CalcError == "KSER~"

InputError == "NLER~"

ErrorPrefix == "ER~: "

\* the longest part of an exception message that is kept
MaxMessage == 50

\* mutant: the message kept whole
ErrorTextWhole(msg) == ErrorPrefix \o msg

\* f"<prefix>{str(e)[:50]}"
ErrorText(msg) == ErrorPrefix \o SubSeq(msg, 1, Min(Len(msg), MaxMessage))

Num(v) == [num |-> v]

Str(s) == [str |-> s]

-----------------------------------------------------------------------------
(* Files *)

\* str.rfind('.'): the last position of "." in name, 0 when there is none
RFind(name) ==
    LET ps == Occurrences(".", name)
    IN  IF ps = {} THEN 0 ELSE CHOOSE p \in ps : \A q \in ps : q <= p

\* PurePath.suffix: the last dot and what follows it, "" for a leading or a trailing dot
Suffix(name) ==
    IF 1 < RFind(name) /\ RFind(name) < Len(name)
    THEN SubSeq(name, RFind(name), Len(name)) ELSE ""

\* PurePath.with_suffix(suffix): ValueError for a suffix that does not start with "."
WithSuffix(name, suffix) ==
    IF Contains("/", suffix) \/ (suffix # "" /\ Char(suffix, 1) # ".") \/ suffix = "."
    THEN [ok |-> FALSE, name |-> name]
    ELSE [ok |-> TRUE, name |-> SubSeq(name, 1, Len(name) - Len(Suffix(name))) \o suffix]

\* the suffix save_patient_data gives to the backup of the results file
BackupSuffix == IF variant = "multi" THEN ".backup.xlsx" ELSE "_backup.xlsx"

\* mutant: the backup made as a copy, the results file left where it was
RenameCopy(fs, from, to) ==
    [n \in DOMAIN fs \cup {to} |-> IF n = to THEN fs[from] ELSE fs[n]]

\* Path.rename(target): the file at from moves to to, replacing what was there
Rename(fs, from, to) ==
    [n \in (DOMAIN fs \ {from}) \cup {to} |-> IF n = to THEN fs[from] ELSE fs[n]]

\* df.to_excel(path): the file at name holds contents
WriteFile(fs, name, contents) ==
    [n \in DOMAIN fs \cup {name} |-> IF n = name THEN contents ELSE fs[n]]

\* self.excel_file_path
excel_file_path == "APACdata.xlsx"

\* a workbook with the patients' rows
Workbook(rows, named) == [kind |-> "frame", rows |-> rows, hasName |-> named]

\* a file pd.read_excel cannot read
Malformed == [kind |-> "malformed"]

\* a results file: the result column written to it
Results(column) == [kind |-> "results", column |-> column]

\* what df.to_excel leaves at the path when it raises after it has opened the file
Partial == [kind |-> "partial"]

\* results of earlier runs, found in the directory when the run starts
OldResults == Results(<<Str("old")>>)

OlderResults == Results(<<Str("older")>>)

NoFiles == [n \in {} |-> Malformed]

\* the results file and what the directory holds next to the input when the
\* run starts: nothing, the results of the last run, or those and a backup
ResultsDirs ==
    { [path |-> "APACdata_results.xlsx", files |-> NoFiles],
      [path |-> "test_results.xlsx",
       files |-> WriteFile(NoFiles, "test_results.xlsx", OldResults)],
      [path |-> "test_results.xlsx",
       files |-> WriteFile(WriteFile(WriteFile(NoFiles, "test_results.xlsx", OldResults),
                              "test_results.backup.xlsx", OlderResults),
                              "test_results_backup.xlsx", OlderResults)] }

NoError == "none"

\* what the input file may hold
InputFiles == {Malformed} \cup {Workbook(f, n) : f \in Frames, n \in BOOLEAN}

-----------------------------------------------------------------------------
(* The form and the rows typed into it *)

\* the cells of a row: a column the frame does not have, None, NaN, or a text
\* (a number is the text str() gives it)
Absent == [kind |-> "absent"]

NoneCell == [kind |-> "none"]

NaNCell == [kind |-> "nan"]

Text(s) == [kind |-> "text", text |-> s]

\* str(cell)
PyStr(cell) ==
    CASE cell.kind = "none" -> "None"
      [] cell.kind = "nan" -> "nan"
      [] cell.kind = "text" -> cell.text

\* patient_row.get(field, '')
Get(patient_row, field) == IF patient_row[field] = Absent THEN Text("") ELSE patient_row[field]

\* the columns typed into the form, by the names barrett_calculator_single.py
\* reads them under, each with the position of its text input on the page
BasicFields == <<"DoctorName", "PatientName", "PatientID", "LensFactor", "AConstant">>

OdFields == <<"AxialLength_R", "MeasuredK1_R", "MeasuredK2_R", "OpticalACD_R", "Refraction_R">>

FieldNames == {BasicFields[i] : i \in 1..5} \cup {OdFields[i] : i \in 1..5}

\* input_values at positions 0..4, od_values at every second position from 5 on
Slots ==
    [i \in 1..10 |->
        IF i <= 5 THEN [field |-> BasicFields[i], at |-> i - 1]
        ELSE [field |-> OdFields[i - 5], at |-> 5 + 2 * (i - 6)]]

EmptyForm == [i \in {} |-> ""]

\* clear() and fill(value) on the text input at position at
Fill(f, at, value) == [i \in DOMAIN f \cup {at} |-> IF i = at THEN value ELSE f[i]]

\* barrett_calculator_single.py: the two loops over input_values and od_values.
\* A value is typed when its input exists and str() of the cell is not empty;
\* an input that raises is logged and the loop goes on
RECURSIVE FillSingle(_, _, _, _)
FillSingle(pg, patient_row, k, f) ==
    IF k > Len(Slots) THEN f
    ELSE LET value == PyStr(Get(patient_row, Slots[k].field))
             at    == Slots[k].at
         IN  IF at < pg.text_inputs /\ value # "" /\ at \notin pg.bad_inputs
             THEN FillSingle(pg, patient_row, k + 1, Fill(f, at, value))
             ELSE FillSingle(pg, patient_row, k + 1, f)

\* barrett_calculator.py: the right eye's five inputs inside one try, so the
\* first that raises (its input, or the row's missing column) ends the filling
RECURSIVE FillOd(_, _, _, _)
FillOd(pg, patient_row, k, f) ==
    IF k > Len(Slots) THEN f
    ELSE IF Slots[k].at \in pg.bad_inputs \/ patient_row[Slots[k].field] = Absent THEN f
    ELSE FillOd(pg, patient_row, k + 1, Fill(f, Slots[k].at, PyStr(patient_row[Slots[k].field])))

\* barrett_calculator.py: Patient Name into the second text input, A Constant
\* into the input next to its range, then the right eye
FillMulti(pg, patient_row) ==
    LET typed(f, k) ==
            IF Slots[k].at < pg.text_inputs /\ Slots[k].at \notin pg.bad_inputs
               /\ patient_row[Slots[k].field] # Absent
            THEN Fill(f, Slots[k].at, PyStr(patient_row[Slots[k].field])) ELSE f
        basic == typed(typed(EmptyForm, 2), 5)
    IN  IF pg.text_inputs >= 14 THEN FillOd(pg, patient_row, 6, basic) ELSE basic

\* a row with every column filled in
FullRow ==
    [f \in FieldNames |->
        CASE f = "DoctorName" -> Text("Dr. Smith")
          [] f = "PatientName" -> Text("Test Patient 1")
          [] f = "PatientID" -> Text("12345")
          [] f = "LensFactor" -> Text("1.83")
          [] f = "AConstant" -> Text("119.0")
          [] f = "AxialLength_R" -> Text("23.04")
          [] f = "MeasuredK1_R" -> Text("44.75")
          [] f = "MeasuredK2_R" -> Text("44.25")
          [] f = "OpticalACD_R" -> Text("2.18")
          [] f = "Refraction_R" -> Text("-0.03")]

\* the ways a cell of a row can be blank
BlankCells == {Absent, Text(""), NoneCell, NaNCell}

\* rows handed to input_patient_data directly: every column filled in, one
\* column blank in one of the four ways, and a row with two blank columns
InputRows ==
    {FullRow}
    \cup {[FullRow EXCEPT ![f] = c] : f \in FieldNames, c \in BlankCells}
    \cup {[FullRow EXCEPT !["DoctorName"] = NoneCell, !["OpticalACD_R"] = Text("")]}

\* the row of the frame as input_patient_data gets it: the rows of a batch
\* have every column but, in a frame without it, the patient's name
PatientRow(r, named) ==
    IF "fields" \in DOMAIN r THEN r.fields
    ELSE IF named THEN FullRow ELSE [FullRow EXCEPT !["PatientName"] = Absent]

-----------------------------------------------------------------------------
(* The extractor's steps *)

\* where a call of the extractor returns to
ReturnPc == IF caller = "batch" THEN "record" ELSE "returned"

\* input_patient_data(page, patient_row): what it returns and what it has typed.
\* False only when the page itself cannot be read or, in
\* barrett_calculator_single.py, when the closing log line finds no
\* 'PatientName' column; a field that is missing or cannot be filled is logged
\* and passed over
InputPatientData(pg, patient_row) ==
    IF pg.input = "page_raises" THEN [ok |-> FALSE, form |-> EmptyForm]
    ELSE IF variant = "multi" THEN [ok |-> TRUE, form |-> FillMulti(pg, patient_row)]
    ELSE [ok |-> patient_row["PatientName"] # Absent,
          form |-> FillSingle(pg, patient_row, 1, EmptyForm)]

\* mutant: None returned when the loop ends, the fallback never called
ExtractFromTableNoFallback ==
    /\ pc = "table"
    /\ steps' = Append(steps, "table")
    /\ LET scan == IF page.fault = "table_rows" THEN [kind |-> "raise"]
                   ELSE TableScan(page.rows, 1, target)
       IN  barrett_value' = IF scan.kind = "return" THEN scan.value ELSE None
    /\ pc' = ReturnPc
    /\ UNCHANGED <<variant, results_file_path,
                   caller, df, hasName, index, Barrett, successful_count, error_count,
                   browser, page, target, input_ok, exc, history, saved, raised,
                   files, error, form, navigations>>

\* mutant: no except clause around the scan, the page's exception leaves the call
ExtractFromTablePropagates ==
    /\ pc = "table"
    /\ steps' = Append(steps, "table")
    /\ LET scan == IF page.fault = "table_rows" THEN [kind |-> "raise"]
                   ELSE TableScan(page.rows, 1, target)
       IN  CASE scan.kind = "return" ->
                    /\ barrett_value' = scan.value
                    /\ pc' = ReturnPc
                    /\ exc' = exc
             [] scan.kind = "raise" ->
                    /\ barrett_value' = barrett_value
                    /\ pc' = IF caller = "batch" THEN "except" ELSE "returned"
                    /\ exc' = "Table error"
             [] scan.kind = "exhausted" ->
                    /\ barrett_value' = barrett_value
                    /\ pc' = "alternative"
                    /\ exc' = exc
    /\ UNCHANGED <<variant, results_file_path,
                   caller, df, hasName, index, Barrett, successful_count, error_count,
                   browser, page, target, input_ok, history, saved, raised,
                   files, error, form, navigations>>

\* _extract_refraction_from_table up to the end of its loop over the rows:
\* returns the first matching row's value, returns None when the page raises,
\* and goes on to _extract_refraction_alternative when the loop ends
ExtractFromTable ==
    /\ pc = "table"
    /\ steps' = Append(steps, "table")
    /\ LET scan == IF page.fault = "table_rows" THEN [kind |-> "raise"]
                   ELSE TableScan(page.rows, 1, target)
       IN  CASE scan.kind = "return" ->
                    /\ barrett_value' = scan.value
                    /\ pc' = ReturnPc
             [] scan.kind = "raise" ->
                    /\ barrett_value' = None
                    /\ pc' = ReturnPc
             [] scan.kind = "exhausted" ->
                    /\ barrett_value' = barrett_value
                    /\ pc' = "alternative"
    /\ UNCHANGED <<variant, results_file_path,
                   caller, df, hasName, index, Barrett, successful_count, error_count,
                   browser, page, target, input_ok, exc, history, saved, raised,
                   files, error, form, navigations>>

\* _extract_refraction_alternative, whose result _extract_refraction_from_table returns
ExtractAlternative ==
    /\ pc = "alternative"
    /\ steps' = Append(steps, "alternative")
    /\ barrett_value' = ExtractRefractionAlternative(page, target)
    /\ pc' = ReturnPc
    /\ UNCHANGED <<variant, results_file_path,
                   caller, df, hasName, index, Barrett, successful_count, error_count,
                   browser, page, target, input_ok, exc, history, saved, raised,
                   files, error, form, navigations>>

-----------------------------------------------------------------------------
(* process_all_patients *)

\* mutant: a file that is missing or cannot be read taken for an empty frame
LoadSwallowed ==
    /\ pc = "load"
    /\ IF excel_file_path \notin DOMAIN files \/ files[excel_file_path] = Malformed
       THEN /\ df' = <<>>
            /\ hasName' = TRUE
            /\ Barrett' = <<>>
       ELSE /\ df' = files[excel_file_path].rows
            /\ hasName' = files[excel_file_path].hasName
            /\ Barrett' = [i \in 1..Len(files[excel_file_path].rows) |-> NaN]
    /\ pc' = "launch"
    /\ UNCHANGED <<variant, results_file_path,
                   caller, index, successful_count, error_count, browser, page, target,
                   input_ok, barrett_value, exc, steps, history, saved,
                   files, form, navigations, raised, error>>

\* load_patient_data: the frame read from the input file, or the exception it
\* re-raises: FileNotFoundError when the file is not there, pd.read_excel's own
\* when it cannot be read
Load ==
    /\ pc = "load"
    /\ IF excel_file_path \notin DOMAIN files
       THEN /\ raised' = "load"
            /\ error' = "FileNotFoundError"
            /\ pc' = "raised"
            /\ UNCHANGED <<df, hasName, Barrett>>
       ELSE IF files[excel_file_path] = Malformed
       THEN /\ raised' = "load"
            /\ error' = "Read error"
            /\ pc' = "raised"
            /\ UNCHANGED <<df, hasName, Barrett>>
       ELSE /\ df' = files[excel_file_path].rows
            /\ hasName' = files[excel_file_path].hasName
            /\ Barrett' = [i \in 1..Len(files[excel_file_path].rows) |-> NaN]
            /\ pc' = "launch"
            /\ UNCHANGED <<raised, error>>
    /\ UNCHANGED <<variant, results_file_path,
                   caller, index, successful_count, error_count, browser, page, target,
                   input_ok, barrett_value, exc, steps, history, saved,
                   files, form, navigations>>

\* sync_playwright, chromium.launch, new_context, new_page and the counters.
\* An exception of new_context or new_page leaves the with block, whose exit
\* stops Playwright and with it the browser it launched
Launch ==
    /\ pc = "launch"
    /\ \/ /\ browser' = "open"
          /\ index' = 1
          /\ pc' = IF Len(df) = 0 THEN "close" ELSE "row"
          /\ UNCHANGED <<raised, error>>
       \/ /\ raised' = "launch"
          /\ error' = "Launch error"
          /\ pc' = "raised"
          /\ UNCHANGED <<browser, index>>
       \/ /\ raised' = "launch"
          /\ error' = "Context error"
          /\ pc' = "raised"
          /\ browser' = "closed"
          /\ index' = index
    /\ UNCHANGED <<variant, results_file_path,
                   caller, df, hasName, Barrett, successful_count, error_count, page, target,
                   input_ok, barrett_value, exc, steps, history, saved,
                   files, form, navigations>>

\* the start of an iteration: the log line, which in barrett_calculator.py
\* reads row['Patient Name'] (barrett_calculator_single.py reads the name with
\* row.get), then page.goto and the wait for the page
RowStart ==
    /\ pc = "row"
    /\ IF variant = "multi" /\ ~hasName
       THEN /\ exc' = KeyErrorMessage
            /\ pc' = "except"
            /\ UNCHANGED <<page, steps, navigations>>
       ELSE /\ steps' = <<"goto">>
            /\ navigations' = Append(navigations, index)
            /\ \/ \E msg \in GotoErrors :
                    /\ exc' = msg
                    /\ pc' = "except"
                    /\ page' = page
               \/ \E pg \in BatchPages :
                    /\ page' = pg
                    /\ pc' = "input"
                    /\ exc' = exc
    /\ UNCHANGED <<variant, results_file_path,
                   caller, df, hasName, index, Barrett, successful_count, error_count,
                   browser, target, input_ok, barrett_value, history, saved, raised,
                   files, error, form>>

\* if self.input_patient_data(page, row):
Input ==
    /\ pc = "input"
    /\ steps' = Append(steps, "input")
    /\ LET r == InputPatientData(page, PatientRow(df[index], hasName))
       IN  /\ input_ok' = r.ok
           /\ form' = r.form
           /\ pc' = IF caller = "unit" THEN "returned"
                    ELSE IF r.ok THEN "calculate" ELSE "record"
    /\ UNCHANGED <<variant, results_file_path,
                   caller, df, hasName, index, Barrett, successful_count, error_count,
                   browser, page, target, barrett_value, exc, history, saved, raised,
                   files, error, navigations>>

\* mutant: both buttons clicked and the table read without a look at is_visible()
CalculateUnchecked ==
    /\ pc = "calculate"
    /\ IF df[index].iol = BadCell
       THEN /\ exc' = FloatErrorMessage
            /\ pc' = "except"
            /\ UNCHANGED <<target, barrett_value, steps>>
       ELSE /\ target' = df[index].iol
            /\ exc' = exc
            /\ barrett_value' = barrett_value
            /\ pc' = "table"
            /\ steps' = steps \o <<"click_calculate", "click_universal">>
    /\ UNCHANGED <<variant, results_file_path,
                   caller, df, hasName, index, Barrett, successful_count, error_count,
                   browser, page, input_ok, history, saved, raised,
                   files, error, form, navigations>>

\* float(row['IOL Power']), then calculate_and_get_result up to its call of
\* _extract_refraction_from_table: the two clicks, each only on a visible button
Calculate ==
    /\ pc = "calculate"
    /\ IF df[index].iol = BadCell
       THEN /\ exc' = FloatErrorMessage
            /\ pc' = "except"
            /\ UNCHANGED <<target, barrett_value, steps>>
       ELSE /\ target' = df[index].iol
            /\ exc' = exc
            /\ CASE page.calculate # "visible" ->
                        /\ barrett_value' = None
                        /\ pc' = "record"
                        /\ steps' = steps
                 [] page.calculate = "visible" /\ page.universal # "visible" ->
                        /\ barrett_value' = None
                        /\ pc' = "record"
                        /\ steps' = Append(steps, "click_calculate")
                 [] page.calculate = "visible" /\ page.universal = "visible" ->
                        /\ barrett_value' = barrett_value
                        /\ pc' = "table"
                        /\ steps' = steps \o <<"click_calculate", "click_universal">>
    /\ UNCHANGED <<variant, results_file_path,
                   caller, df, hasName, index, Barrett, successful_count, error_count,
                   browser, page, input_ok, history, saved, raised,
                   files, error, form, navigations>>

\* the iteration is over: the next row, or the end of the loop
NextRow ==
    /\ index' = index + 1
    /\ pc' = IF index = Len(df) THEN "close" ELSE "row"
    /\ page' = NoPage
    /\ target' = None
    /\ input_ok' = FALSE
    /\ barrett_value' = None
    /\ exc' = ""
    /\ steps' = <<>>
    /\ form' = EmptyForm

\* mutant: a row that failed at input gets its cell and is not counted
RecordInputUncounted ==
    /\ pc = "record"
    /\ IF input_ok
       THEN IF barrett_value # None
            THEN /\ Barrett' = [Barrett EXCEPT ![index] = Num(barrett_value)]
                 /\ successful_count' = successful_count + 1
                 /\ error_count' = error_count
                 /\ history' = Append(history, [kind |-> "value", value |-> barrett_value])
            ELSE /\ Barrett' = [Barrett EXCEPT ![index] = Str(CalcError)]
                 /\ error_count' = error_count + 1
                 /\ successful_count' = successful_count
                 /\ history' = Append(history, [kind |-> "calculation"])
       ELSE /\ Barrett' = [Barrett EXCEPT ![index] = Str(InputError)]
            /\ error_count' = error_count
            /\ successful_count' = successful_count
            /\ history' = Append(history, [kind |-> "input"])
    /\ NextRow
    /\ UNCHANGED <<variant, results_file_path,
                   caller, df, hasName, browser, saved, raised,
                   files, error, navigations>>

\* the branches that write the row's result cell and count the row
Record ==
    /\ pc = "record"
    /\ IF input_ok
       THEN IF barrett_value # None
            THEN /\ Barrett' = [Barrett EXCEPT ![index] = Num(barrett_value)]
                 /\ successful_count' = successful_count + 1
                 /\ error_count' = error_count
                 /\ history' = Append(history, [kind |-> "value", value |-> barrett_value])
            ELSE /\ Barrett' = [Barrett EXCEPT ![index] = Str(CalcError)]
                 /\ error_count' = error_count + 1
                 /\ successful_count' = successful_count
                 /\ history' = Append(history, [kind |-> "calculation"])
       ELSE /\ Barrett' = [Barrett EXCEPT ![index] = Str(InputError)]
            /\ error_count' = error_count + 1
            /\ successful_count' = successful_count
            /\ history' = Append(history, [kind |-> "input"])
    /\ NextRow
    /\ UNCHANGED <<variant, results_file_path,
                   caller, df, hasName, browser, saved, raised,
                   files, error, navigations>>

\* mutant: the browser launched without the with block around it, so that an
\* exception that leaves the loop leaves it open
HandleExceptionLeak ==
    /\ pc = "except"
    /\ Barrett' = [Barrett EXCEPT ![index] = Str(ErrorText(exc))]
    /\ error_count' = error_count + 1
    /\ history' = Append(history, [kind |-> "exception", message |-> exc])
    /\ IF hasName \/ variant = "single"
       THEN /\ NextRow
            /\ UNCHANGED <<browser, raised, error>>
       ELSE /\ pc' = "raised"
            /\ raised' = "row"
            /\ error' = "KeyError"
            /\ UNCHANGED <<browser, index, page, target, input_ok, barrett_value, exc, steps, form>>
    /\ UNCHANGED <<variant, results_file_path,
                   caller, df, hasName, successful_count, saved,
                   files, navigations>>

\* except Exception as e: the cell, the counter, and the log line, which in
\* barrett_calculator.py reads row['Patient Name'] again; without that column
\* the KeyError leaves the loop and the with block, whose exit stops Playwright
\* and with it the browser, and process_all_patients re-raises it
HandleException ==
    /\ pc = "except"
    /\ Barrett' = [Barrett EXCEPT ![index] = Str(ErrorText(exc))]
    /\ error_count' = error_count + 1
    /\ history' = Append(history, [kind |-> "exception", message |-> exc])
    /\ IF hasName \/ variant = "single"
       THEN /\ NextRow
            /\ UNCHANGED <<browser, raised, error>>
       ELSE /\ pc' = "raised"
            /\ raised' = "row"
            /\ error' = "KeyError"
            /\ browser' = "closed"
            /\ UNCHANGED <<index, page, target, input_ok, barrett_value, exc, steps, form>>
    /\ UNCHANGED <<variant, results_file_path,
                   caller, df, hasName, successful_count, saved,
                   files, navigations>>

\* browser.close()
Close ==
    /\ pc = "close"
    /\ browser' = "closed"
    /\ pc' = "save"
    /\ UNCHANGED <<variant, results_file_path,
                   caller, df, hasName, index, Barrett, successful_count, error_count, page,
                   target, input_ok, barrett_value, exc, steps, history, saved, raised,
                   files, error, form, navigations>>

\* mutant: the except clause of save_patient_data logs and returns, and the
\* summary is printed after a write that failed
SaveSwallowed ==
    /\ pc = "save"
    /\ LET found  == results_file_path \in DOMAIN files
           backup == WithSuffix(results_file_path, BackupSuffix)
           moved  == IF found THEN Rename(files, results_file_path, backup.name) ELSE files
       IN  IF found /\ ~backup.ok THEN files' = files /\ saved' = saved
           ELSE \/ /\ files' = WriteFile(moved, results_file_path, Results(Barrett))
                   /\ saved' = Barrett
                \/ /\ files' = moved
                   /\ saved' = saved
    /\ pc' = "done"
    /\ UNCHANGED <<variant, results_file_path,
                   caller, df, hasName, index, Barrett, successful_count, error_count, browser,
                   page, target, input_ok, barrett_value, exc, steps, history,
                   form, navigations, raised, error>>

\* self.save_patient_data(df) and the summary. A results file that is there is
\* first renamed to its backup name; with_suffix raises ValueError for a suffix
\* without a leading dot; rename onto a backup that is there replaces it or,
\* where the platform refuses that, raises FileExistsError; to_excel may raise,
\* before it has opened the results file or after, when what it wrote so far
\* stays at the results path. save_patient_data re-raises and so does
\* process_all_patients
Save ==
    /\ pc = "save"
    /\ LET found  == results_file_path \in DOMAIN files
           backup == WithSuffix(results_file_path, BackupSuffix)
           moved  == IF found THEN Rename(files, results_file_path, backup.name) ELSE files
           raise(e, fs) ==
               /\ raised' = "save"
               /\ error' = e
               /\ pc' = "raised"
               /\ files' = fs
               /\ saved' = saved
       IN  IF found /\ ~backup.ok THEN raise("ValueError", files)
           ELSE \/ /\ files' = WriteFile(moved, results_file_path, Results(Barrett))
                   /\ saved' = Barrett
                   /\ pc' = "done"
                   /\ UNCHANGED <<raised, error>>
                \/ raise("Write error", moved)
                \/ raise("Write error", WriteFile(moved, results_file_path, Partial))
                \/ /\ found
                   /\ backup.name \in DOMAIN files
                   /\ raise("FileExistsError", files)
    /\ UNCHANGED <<variant, results_file_path,
                   caller, df, hasName, index, Barrett, successful_count, error_count, browser,
                   page, target, input_ok, barrett_value, exc, steps, history,
                   form, navigations>>

-----------------------------------------------------------------------------
(* Specifications *)

Idle ==
    /\ df = <<>>
    /\ hasName = TRUE
    /\ index = 0
    /\ Barrett = <<>>
    /\ successful_count = 0
    /\ error_count = 0
    /\ browser = "none"
    /\ input_ok = FALSE
    /\ barrett_value = None
    /\ exc = ""
    /\ steps = <<>>
    /\ history = <<>>
    /\ saved = NotSaved
    /\ raised = "no"
    /\ error = NoError
    /\ form = EmptyForm
    /\ navigations = <<>>

\* a run of process_all_patients of either script, in a directory that holds
\* the input file or not
Init ==
    /\ caller = "batch"
    /\ pc = "load"
    /\ page = NoPage
    /\ target = None
    /\ variant \in {"multi", "single"}
    /\ \E d \in ResultsDirs :
          /\ results_file_path = d.path
          /\ files \in {d.files} \cup {WriteFile(d.files, excel_file_path, w) : w \in InputFiles}
    /\ Idle

Next ==
    \/ Load
    \/ Launch
    \/ RowStart
    \/ Input
    \/ Calculate
    \/ ExtractFromTable
    \/ ExtractAlternative
    \/ Record
    \/ HandleException
    \/ Close
    \/ Save

Spec == Init /\ [][Next]_vars

\* a direct call of _extract_refraction_from_table(page, target_iol_power)
InitExtract ==
    /\ caller = "unit"
    /\ pc = "table"
    /\ \E c \in ExtractorCalls :
          /\ page = c.page
          /\ target = c.target
    /\ variant = "multi"
    /\ results_file_path = "APACdata_results.xlsx"
    /\ files = NoFiles
    /\ Idle

NextExtract ==
    \/ ExtractFromTable
    \/ ExtractAlternative

SpecExtract == InitExtract /\ [][NextExtract]_vars

\* the pages input_patient_data is called on directly: no, ten or all text
\* inputs, the Axial Length input raising or not, the load wait raising or not
InputPages ==
    { [EmptyPage EXCEPT !.text_inputs = n, !.bad_inputs = b, !.input = i] :
         n \in {0, 10, FormInputs}, b \in {{}, {5}}, i \in {"ok", "page_raises"} }

\* a direct call of input_patient_data(page, patient_row) of either script
InitInput ==
    /\ caller = "unit"
    /\ pc = "input"
    /\ variant \in {"multi", "single"}
    /\ results_file_path = "APACdata_results.xlsx"
    /\ files = NoFiles
    /\ \E r \in InputRows, pg \in InputPages :
          /\ df = <<[iol |-> Dec(215, 1), fields |-> r]>>
          /\ hasName = (r["PatientName"] # Absent)
          /\ page = pg
    /\ index = 1
    /\ Barrett = <<NaN>>
    /\ target = None
    /\ successful_count = 0
    /\ error_count = 0
    /\ browser = "open"
    /\ input_ok = FALSE
    /\ barrett_value = None
    /\ exc = ""
    /\ steps = <<>>
    /\ history = <<>>
    /\ saved = NotSaved
    /\ raised = "no"
    /\ error = NoError
    /\ form = EmptyForm
    /\ navigations = <<>>

NextInput == Input

SpecInput == InitInput /\ [][NextInput]_vars

-----------------------------------------------------------------------------
(* automate_apacrs.py *)

INPUT_EXCEL_PATH == "APACdata.xlsx"

OUTPUT_EXCEL_PATH == "APACdata_results.xlsx"

ValueError == [error |-> "ValueError"]

\* float(text) for a text of digits, at most one point and an optional sign,
\* with whitespace around it; ValueError for any other text the tables hold
PyFloat(text) ==
    LET s      == Strip(text)
        signed == Len(s) > 0 /\ Char(s, 1) \in {"+", "-"}
        body   == IF signed THEN Rest(s, 2) ELSE s
        wellFormed ==
            /\ \A i \in 1..Len(body) : IsDigitAt(body, i) \/ Char(body, i) = "."
            /\ \E i \in 1..Len(body) : IsDigitAt(body, i)
            /\ Cardinality(Occurrences(".", body)) <= 1
    IN  IF ~wellFormed THEN ValueError
        ELSE ToFloat((IF Char(s, 1) = "-" THEN "-" ELSE "")
                     \o (IF Char(body, 1) = "." THEN "0" ELSE "") \o body)

\* mutant: the row taken when its first cell is within 0.1 of the target
RefractionRowsNear(rows, k, target_iol_power) ==
    LET near == {j \in k..Len(rows) :
                    /\ Len(rows[j].cells) >= 2
                    /\ PyFloat(Strip(rows[j].cells[1])) # ValueError
                    /\ WithinTolerance(PyFloat(Strip(rows[j].cells[1])), target_iol_power)
                    /\ PyFloat(Strip(rows[j].cells[2])) # ValueError}
    IN  IF \E j \in k..Len(rows) : rows[j].detached THEN None
        ELSE IF near = {} THEN None
        ELSE PyFloat(Strip(rows[SetMin(near)].cells[2]))

\* the loop of get_refraction_value over rows[1:], from row k on: the second
\* cell of the first row whose first cell float() makes equal to the target;
\* a cell float() rejects, first or second, sends the loop to the next row
RECURSIVE RefractionRows(_, _, _)
RefractionRows(rows, k, target_iol_power) ==
    IF k > Len(rows) THEN None
    ELSE IF rows[k].detached THEN None
    ELSE LET cols == rows[k].cells
         IN  IF Len(cols) >= 2
             THEN LET iol_power_in_table == PyFloat(Strip(cols[1]))
                      refraction == PyFloat(Strip(cols[2]))
                  IN  IF iol_power_in_table = ValueError
                      THEN RefractionRows(rows, k + 1, target_iol_power)
                      ELSE IF iol_power_in_table = target_iol_power
                           THEN IF refraction = ValueError
                                THEN RefractionRows(rows, k + 1, target_iol_power)
                                ELSE refraction
                           ELSE RefractionRows(rows, k + 1, target_iol_power)
             ELSE RefractionRows(rows, k + 1, target_iol_power)

\* get_refraction_value(page, target_iol_power): None when the frame, its load
\* wait or the locators raise, else the loop over the rows after the first
get_refraction_value(pg, target_iol_power) ==
    IF pg.fault # "none" THEN None
    ELSE RefractionRows(pg.rows, 2, target_iol_power)

\* the header of the result table the function steps over
HeaderRow == Row(<<"IOL Power", "Refraction">>)

\* rows of the result table as get_refraction_value reads it: the power in
\* the first cell and the refraction in the second
ResultRows ==
    { Row(<<"21.5", "1.25">>),
      Row(<<" 21.50\n", "-0.5">>),
      Row(<<"21.45", "1.75">>),
      Row(<<"21.5", "Biconvex", "0.25">>),
      Row(<<"21.5 D", "1.75">>),
      Row(<<"21.5">>) }

\* first cells of ResultRows with the value each one stands for
ResultFirstCells ==
    { [text |-> "21.5",      value |-> Dec(215, 1)],
      [text |-> " 21.50\n",  value |-> Dec(215, 1)],
      [text |-> "21.45",     value |-> Dec(2145, 2)],
      [text |-> "21.5 D",    value |-> None],
      [text |-> "IOL Power", value |-> None] }

\* the pages main shows a row: a header and the rows under it, a table
\* without a header, a row that has gone from the page; the form that takes
\* the values, times out or raises; the frame whose load wait or rows raise
ResultPages ==
    { [rows |-> rows, form |-> f, fault |-> w] :
         rows \in {<<HeaderRow>> \o data : data \in SeqsUpTo(ResultRows, MaxTableRows)}
                     \cup SeqsUpTo(ResultRows, 1)
                     \cup {<<HeaderRow, DetachedRow>>},
         f \in {"ok"}, w \in {"none"} }
    \cup
    { [rows |-> <<HeaderRow, Row(<<"21.5", "1.25">>)>>, form |-> f, fault |-> w] :
         f \in {"ok", "TimeoutError", "Exception"}, w \in {"none", "wait", "rows"} }

\* what the 'Barrett' column of the input holds for a row
OldCell == Str("old")

\* the frames main reads: the 'IOL Power' cell and the 'Barrett' cell of each row
MainFrames ==
    SeqsUpTo({ [iol |-> Dec(215, 1), barrett |-> OldCell],
               [iol |-> BadCell, barrett |-> NaN] }, MaxRows)

\* pd.read_excel(INPUT_EXCEL_PATH): main prints and returns when the file is
\* missing or cannot be read
MainLoad ==
    /\ pc = "m_load"
    /\ IF INPUT_EXCEL_PATH \notin DOMAIN files \/ files[INPUT_EXCEL_PATH] = Malformed
       THEN /\ pc' = "done"
            /\ UNCHANGED <<df, hasName, Barrett>>
       ELSE /\ df' = files[INPUT_EXCEL_PATH].rows
            /\ hasName' = files[INPUT_EXCEL_PATH].hasName
            /\ Barrett' = [i \in 1..Len(files[INPUT_EXCEL_PATH].rows) |->
                              files[INPUT_EXCEL_PATH].rows[i].barrett]
            /\ pc' = "m_launch"
    /\ UNCHANGED <<variant, results_file_path,
                   caller, index, successful_count, error_count, browser, page, target,
                   input_ok, barrett_value, exc, steps, history, saved, raised,
                   files, error, form, navigations>>

\* sync_playwright, chromium.launch and new_page; their exception leaves main
MainLaunch ==
    /\ pc = "m_launch"
    /\ \/ /\ browser' = "open"
          /\ index' = 1
          /\ pc' = IF Len(df) = 0 THEN "m_close" ELSE "m_row"
          /\ UNCHANGED <<raised, error>>
       \/ /\ raised' = "launch"
          /\ error' = "Launch error"
          /\ pc' = "raised"
          /\ UNCHANGED <<browser, index>>
    /\ UNCHANGED <<variant, results_file_path,
                   caller, df, hasName, Barrett, successful_count, error_count, page, target,
                   input_ok, barrett_value, exc, steps, history, saved,
                   files, form, navigations>>

\* continue, or the end of the loop body
MainNextRow ==
    /\ index' = index + 1
    /\ pc' = IF index = Len(df) THEN "m_close" ELSE "m_row"

\* one row up to the call of get_refraction_value: goto, the five fills and
\* the two clicks, then float(row['IOL Power']); a TimeoutError or any other
\* exception is printed and the loop continues with the next row
MainRow ==
    /\ pc = "m_row"
    /\ navigations' = Append(navigations, index)
    /\ barrett_value' = None
    /\ \E pg \in ResultPages :
          /\ page' = pg
          /\ IF pg.form # "ok"
             THEN /\ history' = Append(history, [kind |-> "skipped", error |-> pg.form])
                  /\ target' = None
                  /\ MainNextRow
             ELSE IF df[index].iol = BadCell
             THEN /\ history' = Append(history, [kind |-> "skipped", error |-> "ValueError"])
                  /\ target' = None
                  /\ MainNextRow
             ELSE /\ target' = df[index].iol
                  /\ pc' = "m_extract"
                  /\ UNCHANGED <<history, index>>
    /\ UNCHANGED <<variant, results_file_path,
                   caller, df, hasName, Barrett, successful_count, error_count, browser,
                   input_ok, exc, steps, saved, raised,
                   files, error, form>>

\* mutant: a row without a value gets a sentinel in its 'Barrett' cell
MainExtractSentinel ==
    /\ pc = "m_extract"
    /\ LET refraction_val == get_refraction_value(page, target)
       IN  /\ barrett_value' = refraction_val
           /\ IF refraction_val # None
              THEN /\ Barrett' = [Barrett EXCEPT ![index] = Num(refraction_val)]
                   /\ history' = Append(history, [kind |-> "value", value |-> refraction_val])
              ELSE /\ Barrett' = [Barrett EXCEPT ![index] = Str(CalcError)]
                   /\ history' = Append(history, [kind |-> "none"])
    /\ MainNextRow
    /\ UNCHANGED <<variant, results_file_path,
                   caller, df, hasName, successful_count, error_count, browser, page, target,
                   input_ok, exc, steps, saved, raised,
                   files, error, form, navigations>>

\* refraction_val = get_refraction_value(page, target_iol) and the one write
\* of the frame: df.at[index, 'Barrett'] when the value is not None
MainExtract ==
    /\ pc = "m_extract"
    /\ LET refraction_val == get_refraction_value(page, target)
       IN  /\ barrett_value' = refraction_val
           /\ IF refraction_val # None
              THEN /\ Barrett' = [Barrett EXCEPT ![index] = Num(refraction_val)]
                   /\ history' = Append(history, [kind |-> "value", value |-> refraction_val])
              ELSE /\ Barrett' = Barrett
                   /\ history' = Append(history, [kind |-> "none"])
    /\ MainNextRow
    /\ UNCHANGED <<variant, results_file_path,
                   caller, df, hasName, successful_count, error_count, browser, page, target,
                   input_ok, exc, steps, saved, raised,
                   files, error, form, navigations>>

\* browser.close() after the loop
MainClose ==
    /\ pc = "m_close"
    /\ browser' = "closed"
    /\ pc' = "m_save"
    /\ UNCHANGED <<variant, results_file_path,
                   caller, df, hasName, index, Barrett, successful_count, error_count, page,
                   target, input_ok, barrett_value, exc, steps, history, saved, raised,
                   files, error, form, navigations>>

\* df.to_excel(OUTPUT_EXCEL_PATH, index=False): no backup, and an exception
\* of the write leaves main
MainSave ==
    /\ pc = "m_save"
    /\ \/ /\ files' = WriteFile(files, OUTPUT_EXCEL_PATH, Results(Barrett))
          /\ saved' = Barrett
          /\ pc' = "done"
          /\ UNCHANGED <<raised, error>>
       \/ /\ files' \in {files, WriteFile(files, OUTPUT_EXCEL_PATH, Partial)}
          /\ raised' = "save"
          /\ error' = "Write error"
          /\ pc' = "raised"
          /\ saved' = saved
    /\ UNCHANGED <<variant, results_file_path,
                   caller, df, hasName, index, Barrett, successful_count, error_count, browser,
                   page, target, input_ok, barrett_value, exc, steps, history,
                   form, navigations>>

\* a run of main of automate_apacrs.py, in a directory that holds the input
\* file or not
InitMain ==
    /\ caller = "main"
    /\ pc = "m_load"
    /\ page = NoPage
    /\ target = None
    /\ variant = "apacrs"
    /\ results_file_path = OUTPUT_EXCEL_PATH
    /\ files \in {NoFiles, WriteFile(NoFiles, INPUT_EXCEL_PATH, Malformed)}
                    \cup {WriteFile(NoFiles, INPUT_EXCEL_PATH, Workbook(f, TRUE)) : f \in MainFrames}
    /\ Idle

NextMain ==
    \/ MainLoad
    \/ MainLaunch
    \/ MainRow
    \/ MainExtract
    \/ MainClose
    \/ MainSave

SpecMain == InitMain /\ [][NextMain]_vars

-----------------------------------------------------------------------------
(* Properties *)

\* a decimal with at most three fractional digits, in thousandths
Milli(x) == x.m * Pow10(3 - x.e)

\* the value a listed cell text stands for
ValueOf(cellSet, text) == (CHOOSE c \in cellSet : c.text = text).value

FirstTexts == {c.text : c \in FirstCells}

ResultTexts == {c.text : c \in ResultCells}

\* the loop over the table rows is over
ScanDone == pc \in {"alternative", "returned"}

\* the call returned a value out of the table loop, the fallback not called
ReturnedFromTable == pc = "returned" /\ steps = <<"table">> /\ barrett_value # None

\* a direct call on a readable page whose table is one row of three listed cells
SingleRowCall ==
    /\ caller = "unit"
    /\ page.fault = "none"
    /\ Len(page.rows) = 1
    /\ ~page.rows[1].detached
    /\ Len(page.rows[1].cells) = 3
    /\ page.rows[1].cells[1] \in FirstTexts
    /\ page.rows[1].cells[3] \in ResultTexts

FirstValue == ValueOf(FirstCells, page.rows[1].cells[1])

ResultValue == ValueOf(ResultCells, page.rows[1].cells[3])

\* |v - t| < 0.1, in thousandths
Near(v, t) == Abs(Milli(v) - Milli(t)) < 100

\* C1: a row of three cells whose first cell stands for V and whose result cell
\* holds a number is the row the scan returns from if and only if |V - T| < 0.1
C1_ToleranceIff ==
    (SingleRowCall /\ ScanDone /\ FirstValue # None /\ ResultValue # None)
        => (ReturnedFromTable <=> Near(FirstValue, target))

\* C1 witness: first cell 21.099 against target 21.0 returned from the table
C1_Witness ==
    /\ SingleRowCall
    /\ page.rows[1].cells = <<"21.099", "Biconvex", "1.25">>
    /\ target = Dec(21, 0)
    /\ ReturnedFromTable
    /\ barrett_value = Dec(125, 2)

ScenarioRows ==
    <<Row(<<"21.5", "Biconvex", "1.25">>), Row(<<"22.0", "Biconvex", "1.75">>)>>

\* C2: on the two-row scenario table the call returns 1.25 for target 21.5,
\* 1.75 for target 22.05, and None for target 25.0 when nothing on the page
\* is highlighted and the markup holds no candidate
C2_Scenario ==
    (caller = "unit" /\ pc = "returned" /\ page.rows = ScenarioRows /\ page.fault = "none")
        => /\ target = Dec(215, 1) => barrett_value = Dec(125, 2)
           /\ target = Dec(2205, 2) => barrett_value = Dec(175, 2)
           /\ (target = Dec(25, 0) /\ page.highlighted = <<>>) => barrett_value = None

\* C2 witness: the scenario table with target 22.05 returned 1.75
C2_Witness ==
    /\ caller = "unit"
    /\ pc = "returned"
    /\ page.rows = ScenarioRows
    /\ page.markup = MockContent
    /\ target = Dec(2205, 2)
    /\ barrett_value = Dec(175, 2)

\* a direct call on a table of listed rows that can all be read
ReadableTable ==
    /\ caller = "unit"
    /\ page.fault # "table_rows"
    /\ \A k \in 1..Len(page.rows) :
          /\ ~page.rows[k].detached
          /\ Len(page.rows[k].cells) >= 3 =>
                /\ page.rows[k].cells[1] \in FirstTexts
                /\ page.rows[k].cells[3] \in ResultTexts

ListedTable == ReadableTable /\ page.fault = "none"

\* row k has three cells and a first cell within tolerance of the target
RowNear(k) ==
    /\ Len(page.rows[k].cells) >= 3
    /\ ValueOf(FirstCells, page.rows[k].cells[1]) # None
    /\ Near(ValueOf(FirstCells, page.rows[k].cells[1]), target)

RowResult(k) == ValueOf(ResultCells, page.rows[k].cells[3])

NearRows == {k \in 1..Len(page.rows) : RowNear(k)}

NearRowsWithResult == {k \in NearRows : RowResult(k) # None}

\* C3 as stated: with two or more rows within tolerance the call returns the
\* result value of the first of them, whatever the result cells hold
C3_FirstNearRowWins ==
    (ListedTable /\ ScanDone /\ Cardinality(NearRows) >= 2)
        => /\ ReturnedFromTable
           /\ barrett_value = RowResult(SetMin(NearRows))

\* C3 amended: with two or more rows within tolerance, of which at least one
\* has a number in its result cell, the call returns the result value of the
\* first row within tolerance whose result cell holds a number
C3_FirstNearRowWithResultWins ==
    (ListedTable /\ ScanDone /\ Cardinality(NearRows) >= 2 /\ NearRowsWithResult # {})
        => /\ ReturnedFromTable
           /\ barrett_value = RowResult(SetMin(NearRowsWithResult))

\* C3 witness: two rows within tolerance, the value of the first one returned
C3_Witness ==
    /\ ListedTable
    /\ page.rows = <<Row(<<"21.45", "Biconvex", "-2.75">>), Row(<<"21.5", "Biconvex", "1.25">>)>>
    /\ target = Dec(215, 1)
    /\ ReturnedFromTable
    /\ barrett_value = Dec(-275, 2)

\* C4: when no row of the table yields a value (no rows, rows of another
\* shape, no row within tolerance with a number), the call does not return
\* before _extract_refraction_alternative has run, right after the scan
C4_FallbackBeforeNone ==
    (ReadableTable /\ NearRowsWithResult = {})
        => /\ pc = "returned" => steps = <<"table", "alternative">>
           /\ pc = "alternative" => steps = <<"table">>

\* C4 witness: a table of one two-cell row, None returned after the fallback ran
C4_Witness ==
    /\ ReadableTable
    /\ page.rows = <<Row(<<"21.5", "0.5">>)>>
    /\ pc = "returned"
    /\ barrett_value = None
    /\ steps = <<"table", "alternative">>

\* the extraction steps of a row
ExtractionSteps == {"click_calculate", "click_universal", "table", "alternative"}

StepSet == {steps[i] : i \in 1..Len(steps)}

\* the page of the current row raises in a step calculate_and_get_result reaches
PageRaises ==
    \/ page.calculate = "raises"
    \/ page.calculate = "visible" /\ page.universal = "raises"
    \/ /\ page.calculate = "visible"
       /\ page.universal = "visible"
       /\ \/ page.fault = "table_rows"
          \/ page.rows # <<>> /\ page.rows[1].detached
          \/ page.rows = <<>> /\ page.markup = MockContent
                /\ page.fault \in {"content", "highlighted"}

\* C5: an exception the page raises during the calculation or the extraction
\* ends the call with None; the loop's exception handler is never entered from
\* an extraction step
C5_PageFaultsCaught ==
    /\ (pc = "record" /\ input_ok /\ PageRaises) => barrett_value = None
    /\ pc = "except" => StepSet \cap ExtractionSteps = {}

\* C5 witness: page.content() raised in the fallback and the row's calculation returned None
C5_Witness ==
    /\ pc = "record"
    /\ input_ok
    /\ page.fault = "content"
    /\ steps = <<"goto", "input", "click_calculate", "click_universal", "table", "alternative">>
    /\ barrett_value = None

AllRowsRecorded == \A i \in 1..Len(df) : Barrett[i] # NaN

\* C6: no row's failure halts the batch: no exception of a row leaves
\* process_all_patients, the loop ends only with every row recorded, and the
\* frame that is saved holds every row; a row with 1.25 followed by a row whose
\* input failed is saved as [1.25, input error]
C6_NoRowHaltsBatch ==
    /\ raised # "row"
    /\ pc \in {"close", "save", "done"} => (Len(history) = Len(df) /\ AllRowsRecorded)
    /\ pc = "done" => (saved = Barrett /\ Len(saved) = Len(df))
    /\ (pc = "done" /\ history = <<[kind |-> "value", value |-> Dec(125, 2)], [kind |-> "input"]>>)
          => saved = <<Num(Dec(125, 2)), Str(InputError)>>

\* what the result cell of a recorded row has to hold
CellFits(cell, h) ==
    CASE h.kind = "value" -> cell = Num(h.value)
      [] h.kind = "calculation" -> cell = Str("KSER~")
      [] h.kind = "input" -> cell = Str("NLER~")
      [] h.kind = "exception" ->
            /\ DOMAIN cell = {"str"}
            /\ Len(cell.str) = 5 + (IF Len(h.message) <= 50 THEN Len(h.message) ELSE 50)
            /\ cell.str = "ER~: " \o SubSeq(h.message, 1, Len(cell.str) - 5)
            /\ cell.str \notin {"KSER~", "NLER~"}

\* C7: the result cell of every recorded row holds the returned number, the
\* calculation-error text, the input-error text, or the error prefix followed
\* by at most the first 50 characters of the exception's message, according to
\* what happened to the row; the three texts differ from one another
C7_ResultCell ==
    caller = "batch" =>
        /\ Len(history) <= Len(Barrett)
        /\ \A i \in 1..Len(history) : CellFits(Barrett[i], history[i])
        /\ CalcError # InputError

\* C7 witness: a row whose exception message has 51 characters, cut to 50
C7_Witness ==
    /\ Len(history) >= 1
    /\ history[1].kind = "exception"
    /\ Len(history[1].message) = 51
    /\ Barrett[1] = Str("ER~: net::ERR_NAME_NOT_RESOLVED at https://calc.apacrs.")

\* C8: a result cell without digits gives no value and one with digits gives
\* the number it shows (1.25, -2.75, 0.00 as 0); a first cell without digits
\* never makes the row match, not even for target 0
C8_NoDigitsNoValue ==
    (SingleRowCall /\ ScanDone) =>
        /\ FirstValue = None => ~ReturnedFromTable
        /\ (FirstValue # None /\ Near(FirstValue, target)) =>
              IF ResultValue = None THEN ~ReturnedFromTable
              ELSE ReturnedFromTable /\ barrett_value = ResultValue

\* C8 witness: first cell "invalid" against target 0.0 did not match
C8_Witness ==
    /\ SingleRowCall
    /\ page.rows[1].cells = <<"invalid", "Biconvex", "1.25">>
    /\ target = Dec(0, 0)
    /\ pc = "returned"
    /\ steps = <<"table", "alternative">>
    /\ barrett_value = None

\* the row of a single-row call matched and its result cell reads "+1.50"
PlusCellMatched ==
    /\ SingleRowCall
    /\ ScanDone
    /\ page.rows[1].cells[3] = "+1.50"
    /\ FirstValue # None
    /\ Near(FirstValue, target)

\* C9: the search in "+1.50" finds a match and its value is 1.50
C9_PlusFound == PlusCellMatched => (ReturnedFromTable /\ barrett_value = Dec(150, 2))

\* C9 witness: result cell "+1.50" of a matching row returned 1.5
C9_Witness ==
    /\ PlusCellMatched
    /\ page.rows[1].cells[1] = "21.5"
    /\ target = Dec(215, 1)
    /\ barrett_value = Dec(15, 1)

\* C10 as stated: applied to "+1.50" the pattern does not produce 1.50
C10_PlusNotHandled == PlusCellMatched => barrett_value # Dec(15, 1)

\* C10 amended: the pattern has no case for "+", and the search steps over it:
\* in "+1.50" the match is the text "1.50" from the second character on, and
\* the value produced is 1.50
C10_PlusSteppedOver ==
    PlusCellMatched =>
        /\ barrett_value = Dec(15, 1)
        /\ RefractionSearch(page.rows[1].cells[3]) = [matched |-> TRUE, start |-> 2, text |-> "1.50"]

\* C10 witness: result cell "+1.50" next to first cell 21.45, target 21.5, returned 1.5
C10_Witness ==
    /\ PlusCellMatched
    /\ page.rows[1].cells[1] = "21.45"
    /\ target = Dec(215, 1)
    /\ ReturnedFromTable
    /\ barrett_value = Dec(15, 1)

\* a direct call on a table of one row with a cell that reads ".5"
BareFractionCall ==
    /\ caller = "unit"
    /\ pc = "returned"
    /\ page.fault = "none"
    /\ page.rows \in {<<r>> : r \in BareFractionRows}

\* C11: a cell whose text is the bare ".5" produces no numeric value: as a
\* result cell it gives the call nothing to return, and as a first cell it
\* never makes the row match
C11_BareFractionRejected ==
    BareFractionCall => (barrett_value = None /\ steps = <<"table", "alternative">>)

\* every row of the table has fewer than three td cells
OnlyShortRows == \A k \in 1..Len(page.rows) : Len(page.rows[k].cells) < 3

\* C12: a row with fewer than three td cells is passed over without an
\* exception and gives no result: a table of such rows alone sends the call on
\* to the fallback, and a value returned from the table is the number in the
\* third cell of a row that has three cells and is within tolerance
C12_ShortRowsSkipped ==
    (ListedTable /\ ScanDone) =>
        /\ OnlyShortRows => (pc = "alternative" \/ steps = <<"table", "alternative">>)
        /\ ReturnedFromTable => \E k \in NearRowsWithResult : barrett_value = RowResult(k)

\* C12 witness: the two-cell row ("21.5", "0.5") was passed over and the
\* three-cell row after it gave 1.25
C12_Witness ==
    /\ ListedTable
    /\ page.rows = <<Row(<<"21.5", "0.5">>), Row(<<"21.5", "Biconvex", "1.25">>)>>
    /\ target = Dec(215, 1)
    /\ ReturnedFromTable
    /\ barrett_value = Dec(125, 2)

InputMissing == excel_file_path \notin DOMAIN files

InputUnreadable == ~InputMissing /\ files[excel_file_path] = Malformed

\* C13: when the input file is missing or cannot be read, load_patient_data
\* raises (FileNotFoundError for a missing file) and process_all_patients
\* re-raises it; no browser is launched, no row is processed and nothing is saved
C13_LoadFailureFatal ==
    (caller = "batch" /\ pc # "load" /\ (InputMissing \/ InputUnreadable)) =>
        /\ pc = "raised"
        /\ raised = "load"
        /\ error = (IF InputMissing THEN "FileNotFoundError" ELSE "Read error")
        /\ browser = "none"
        /\ index = 0 /\ navigations = <<>> /\ steps = <<>> /\ history = <<>>
        /\ saved = NotSaved
        /\ results_file_path \in DOMAIN files => files[results_file_path] = OldResults

\* C13 witness: a run without the input file ended with FileNotFoundError
C13_Witness ==
    /\ caller = "batch"
    /\ InputMissing
    /\ pc = "raised"
    /\ raised = "load"
    /\ error = "FileNotFoundError"
    /\ browser = "none"

\* the run started in a directory that held a results file (ResultsDirs)
HadResults == results_file_path = "test_results.xlsx"

\* save_patient_data was called and has returned or raised
SaveAttempted == pc = "done" \/ (pc = "raised" /\ raised = "save")

\* C14: when the results file is there, save_patient_data moves it to
\* <stem>_backup.xlsx and writes the new data to the results path without
\* raising: the backup holds the previous contents, the results file the new
\* (the failures of the write itself and of the platform's rename set aside)
C14_BackupThenWrite ==
    (caller = "batch" /\ HadResults /\ SaveAttempted
        /\ error \notin {"Write error", "FileExistsError"}) =>
        /\ pc = "done"
        /\ "test_results_backup.xlsx" \in DOMAIN files
        /\ files["test_results_backup.xlsx"] = OldResults
        /\ files[results_file_path] = Results(Barrett)

\* the results file holds what this run wrote
ResultsWritten ==
    /\ results_file_path \in DOMAIN files
    /\ files[results_file_path] = Results(Barrett)

\* C15: a write of the results file that raises is surfaced: the exception
\* leaves save_patient_data and process_all_patients, and the run reports
\* success only with the results file written
C15_WriteFailureSurfaced ==
    caller = "batch" =>
        /\ (SaveAttempted /\ ~ResultsWritten) => (pc = "raised" /\ error # NoError)
        /\ error = "Write error" =>
              (pc = "raised" /\ raised = "save" /\ saved = NotSaved /\ ~ResultsWritten)
        /\ pc = "done" => (error = NoError /\ raised = "no" /\ ResultsWritten)

\* C15 witness: the rows were processed, the write raised, and the run ended
\* with that exception
C15_Witness ==
    /\ caller = "batch"
    /\ Len(df) >= 1
    /\ Len(history) = Len(df)
    /\ pc = "raised"
    /\ raised = "save"
    /\ error = "Write error"
    /\ ~ResultsWritten

\* the run is over
RunEnded == pc \in {"done", "raised"}

\* the browser is launched in the one place before the loop, and once it has
\* been launched the only change left to it is its release
OneSession ==
    /\ (browser = "none" /\ browser' # "none") => pc = "launch"
    /\ browser = "open" => browser' \in {"open", "closed"}
    /\ browser = "closed" => browser' = "closed"

\* C16: the browser is acquired once per batch and always released: it is
\* open while the rows are processed, it is never launched a second time, and
\* a run that launched it ends with it closed, whether every row was
\* processed or an exception left the with block
C16_BrowserReleased ==
    /\ [](caller = "batch" =>
            /\ pc \in {"row", "input", "calculate", "table", "alternative", "record",
                        "except", "close"} => browser = "open"
            /\ (RunEnded \/ pc = "save") => browser \in {"none", "closed"}
            /\ (RunEnded /\ raised \notin {"load", "launch"}) => browser = "closed")
    /\ [][OneSession]_vars

\* C16 witness: an exception left the loop of a launched browser and the run
\* ended with the browser closed
C16_Witness ==
    /\ caller = "batch"
    /\ pc = "raised"
    /\ raised = "row"
    /\ browser = "closed"
    /\ Len(history) < Len(df)

\* a direct call of input_patient_data has returned
InputReturned == caller = "unit" /\ pc = "returned" /\ steps = <<"input">>

\* C17: in barrett_calculator_single.py, on a page whose inputs are all there
\* and take text, a column that is absent, empty, None or NaN leaves its form
\* field untouched, every other column is typed into its field, and the call
\* returns True
C17_BlankFieldSkipped ==
    (InputReturned /\ variant = "single" /\ page.input = "ok"
        /\ page.text_inputs = FormInputs /\ page.bad_inputs = {}) =>
        /\ input_ok
        /\ \A k \in 1..Len(Slots) :
              LET cell == df[1].fields[Slots[k].field]
              IN  IF cell \in BlankCells THEN Slots[k].at \notin DOMAIN form
                  ELSE Slots[k].at \in DOMAIN form /\ form[Slots[k].at] = cell.text

\* on the page of the current row a form field was not found or raised when
\* it was cleared or filled
FieldFailed ==
    /\ page # NoPage
    /\ page.input = "ok"
    /\ (page.text_inputs < FormInputs \/ page.bad_inputs # {})

\* C18: a row whose form field could not be found or filled is recorded with
\* the input-error text: input_patient_data did not return True for it and
\* the row does not go on to the calculation
C18_FieldFailureRecorded ==
    (caller = "batch" /\ FieldFailed) =>
        /\ pc \notin {"calculate", "table", "alternative"}
        /\ pc = "record" => ~input_ok

\* the steps of a row in the order the code takes them
RowSteps == <<"goto", "input", "click_calculate", "click_universal", "table", "alternative">>

\* what _extract_refraction_from_table returns for the page and the target
Extracted ==
    IF page.fault = "table_rows" THEN None
    ELSE LET scan == TableScan(page.rows, 1, target)
         IN  CASE scan.kind = "return" -> scan.value
               [] scan.kind = "raise" -> None
               [] scan.kind = "exhausted" -> ExtractRefractionAlternative(page, target)

\* C19: calculate_and_get_result clicks Calculate, clicks the Universal
\* Formula tab and extracts, in that order and each at most once; with the
\* Calculate button not visible it returns None with nothing clicked, with
\* the tab not visible it returns None with nothing extracted, and otherwise
\* it returns what _extract_refraction_from_table returned
C19_CalculateOrder ==
    caller = "batch" =>
        /\ Len(steps) <= Len(RowSteps) /\ steps = SubSeq(RowSteps, 1, Len(steps))
        /\ (pc = "record" /\ input_ok) =>
              CASE page.calculate = "hidden" ->
                      barrett_value = None /\ steps = <<"goto", "input">>
                [] page.calculate = "visible" /\ page.universal = "hidden" ->
                      barrett_value = None /\ steps = <<"goto", "input", "click_calculate">>
                [] page.calculate = "visible" /\ page.universal = "visible" ->
                      /\ barrett_value = Extracted
                      /\ Len(steps) >= 5
                [] OTHER -> barrett_value = None

\* C19 witness: the Universal Formula tab was not visible; Calculate was
\* clicked, nothing was extracted and None came back
C19_Witness ==
    /\ caller = "batch"
    /\ pc = "record"
    /\ input_ok
    /\ page.universal = "hidden"
    /\ steps = <<"goto", "input", "click_calculate">>
    /\ barrett_value = None

\* C20: rows are processed in spreadsheet order without retries: page.goto is
\* called once for every row of the frame, in row order; the navigation for a
\* row starts only after the row before it has been recorded, and every
\* recorded row has had its navigation; no step of a row is taken twice
C20_InOrderOncePerRow ==
    caller = "batch" =>
        /\ navigations = [i \in 1..Len(navigations) |-> i]
        /\ Len(history) <= Len(navigations)
        /\ Len(navigations) <= Len(history) + 1
        /\ (RunEnded /\ raised \notin {"load", "launch"}) => Len(navigations) = Len(df)
        /\ \A i, j \in 1..Len(steps) : steps[i] = steps[j] => i = j

-----------------------------------------------------------------------------
(* _extract_refraction_alternative *)

\* a direct call returned through the fallback, the page raising nowhere
FallbackReturned ==
    /\ caller = "unit"
    /\ pc = "returned"
    /\ steps = <<"table", "alternative">>
    /\ page.fault = "none"

\* the fallback returned a value its textual patterns produced
TextualReturned == FallbackReturned /\ page.highlighted = <<>> /\ barrett_value # None

\* the first signed decimal after the first literal occurrence of text t in s
AfterLiteral(t, s) == RefractionSearch(Rest(s, SetMin(Occurrences(t, s)) + Len(t)))

\* C21: the textual fallback returns a value only when the markup contains
\* str(target) character for character, and the value is the first signed
\* decimal that follows that occurrence
C21_LiteralTargetOnly ==
    TextualReturned
        => /\ Contains(FloatStr(target), page.markup)
           /\ AfterLiteral(FloatStr(target), page.markup).matched
           /\ barrett_value = ToFloat(AfterLiteral(FloatStr(target), page.markup).text)

\* the highlighted rows whose text contains the literal target value
Containing == {k \in 1..Len(page.highlighted) : Contains(FloatStr(target), page.highlighted[k])}

\* those of them whose text ends in a signed decimal
Yielding == {k \in Containing : TrailingNumber(Strip(page.highlighted[k])).matched}

TrailingValue(k) == ToFloat(TrailingNumber(Strip(page.highlighted[k])).text)

TextualMatched == TextualFallback(FloatStr(target), page.markup).matched

\* C22 as stated: when no textual pattern produced a value, the fallback
\* returns the trailing signed decimal of the first highlighted row that
\* contains the literal target value
C22_FirstContainingRow ==
    (FallbackReturned /\ ~TextualMatched /\ Containing # {})
        => /\ SetMin(Containing) \in Yielding
           /\ barrett_value = TrailingValue(SetMin(Containing))

\* C22 amended: a value of the textual patterns is returned without the
\* highlighted rows having a say; otherwise the fallback returns the trailing
\* signed decimal of the first highlighted row, in document order, that
\* contains the literal target value and ends in a signed decimal ("21.5
\* Biconvex 1.75" with target 21.5 gives 1.75), and None when there is no such row
C22_FirstYieldingRow ==
    FallbackReturned
        => /\ TextualMatched
               => barrett_value = ToFloat(TextualFallback(FloatStr(target), page.markup).text)
           /\ (~TextualMatched /\ Yielding # {})
               => barrett_value = TrailingValue(SetMin(Yielding))
           /\ (~TextualMatched /\ Yielding = {}) => barrett_value = None
           /\ (/\ ~TextualMatched
               /\ page.highlighted = <<"21.5 Biconvex 1.75">>
               /\ target = Dec(215, 1))
               => barrett_value = Dec(175, 2)

\* C22 witness: the first highlighted row holding the target ends in no
\* number, and the value of the second one is returned
C22_Witness ==
    /\ FallbackReturned
    /\ ~TextualMatched
    /\ page.highlighted = <<"21.5 Biconvex n/a", "21.5 Toric 0.25">>
    /\ target = Dec(215, 1)
    /\ barrett_value = Dec(25, 2)

-----------------------------------------------------------------------------
(* _extract_refraction_from_table: rows within tolerance, signs *)

\* the fallback is the next thing the call does, or did before it returned
FallbackNext ==
    \/ pc = "alternative" /\ steps = <<"table">>
    \/ pc = "returned" /\ steps = <<"table", "alternative">>

\* C25: a row within tolerance whose result cell holds no number does not end
\* the scan: the value of the first later row that yields one is returned,
\* and the fallback runs if no row yields a value
C25_NoNumberNoReturn ==
    (ListedTable /\ ScanDone /\ NearRows \ NearRowsWithResult # {})
        => /\ NearRowsWithResult # {}
               => /\ ReturnedFromTable
                  /\ barrett_value = RowResult(SetMin(NearRowsWithResult))
           /\ NearRowsWithResult = {} => FallbackNext

\* C25 witness: the first row within tolerance has no number in its result
\* cell, and the value of the second one is returned
C25_Witness ==
    /\ ListedTable
    /\ page.rows = <<Row(<<"21.5", "Biconvex", "invalid">>), Row(<<"21.45", "Biconvex", "-2.75">>)>>
    /\ target = Dec(215, 1)
    /\ ReturnedFromTable
    /\ barrett_value = Dec(-275, 2)

\* a direct call on a readable page whose table is made of signed rows
SignedCall ==
    /\ caller = "unit"
    /\ page.fault = "none"
    /\ page.rows # <<>>
    /\ \A k \in 1..Len(page.rows) : page.rows[k] \in SignedRows

\* the value the scan parses from the first cell of row k
ParsedFirst(k) == ToFloat(IolSearch(Strip(page.rows[k].cells[1])).text)

\* C26: the value parsed from a first cell is never negative: "-21.5" parses
\* to 21.5 and matches target 21.5, and a target of -0.1 or less is matched
\* by no row of the scan
C26_FirstCellUnsigned ==
    /\ (SignedCall /\ ScanDone)
           => /\ \A k \in 1..Len(page.rows) : ParsedFirst(k).m >= 0
              /\ \A k \in 1..Len(page.rows) :
                    page.rows[k].cells[1] = "-21.5" => ParsedFirst(k) = Dec(215, 1)
              /\ (target = Dec(215, 1) /\ \E k \in 1..Len(page.rows) : page.rows[k].cells[1] = "-21.5")
                    => ReturnedFromTable /\ barrett_value = Dec(125, 2)
    /\ (caller = "unit" /\ ScanDone /\ Milli(target) <= -100) => ~ReturnedFromTable

\* C26 witness: the first cell "-21.5" matched target 21.5
C26_Witness ==
    /\ SignedCall
    /\ page.rows = <<Row(<<"-21.5", "Biconvex", "1.25">>)>>
    /\ target = Dec(215, 1)
    /\ ReturnedFromTable
    /\ barrett_value = Dec(125, 2)

\* C26 witness: the scan against target -21.5 went past the first cell "-21.5"
C26_NegativeTargetWitness ==
    /\ SignedCall
    /\ page.rows = <<Row(<<"-21.5", "Biconvex", "1.25">>)>>
    /\ target = Dec(-215, 1)
    /\ pc = "returned"
    /\ barrett_value = None

-----------------------------------------------------------------------------
(* _extract_refraction_alternative: the three patterns *)

\* C27: whenever the second or third pattern matches the markup the first one
\* matches too, and every value the textual fallback returns is the first
\* capture of the first pattern
C27_FirstPatternDecides ==
    FallbackReturned
        => LET t == FloatStr(target)
               s == page.markup
           IN  /\ (Pattern2(t, s).matched \/ Pattern3(t, s).matched) => Pattern1(t, s).matched
               /\ Pattern1(t, s).matched => barrett_value = ToFloat(Pattern1(t, s).text)
               /\ (~Pattern1(t, s).matched /\ page.highlighted = <<>>) => barrett_value = None

\* C27 witness: the third pattern captures 1.25, the first one 2, and 2 is returned
C27_Witness ==
    /\ FallbackReturned
    /\ page.markup = "<td>21.5</td><td>2 mm</td><td>1.25</td>"
    /\ target = Dec(215, 1)
    /\ Pattern3(FloatStr(target), page.markup).text = "1.25"
    /\ barrett_value = Dec(2, 0)

\* the place in the markup right after the text the first pattern took for the target
AfterTarget == SetMin(PatternStarts(FloatStr(target), page.markup)) + Len(FloatStr(target))

\* C28: the value of the textual fallback is never made of the digits that
\* directly continue the matched target inside the same number: for target
\* 21.5 and a markup with "21.50" followed by "1.25" the result is not 0
C28_SeparateToken ==
    TextualReturned
        => /\ ~(/\ IsDigitAt(page.markup, AfterTarget)
                /\ RefractionSearch(Rest(page.markup, AfterTarget)).start = 1)
           /\ (page.markup = "21.50 D\n<b>1.25</b>" /\ target = Dec(215, 1))
                  => barrett_value # Dec(0, 0)

-----------------------------------------------------------------------------
(* process_all_patients: the save and the counters *)

\* C23: on every run in which loading succeeds, save_patient_data is called,
\* once every row has been handled and the browser has been closed, with the
\* frame that carries every row's outcome
C23_SavedOncePerRun ==
    (caller = "batch" /\ RunEnded /\ raised # "load")
        => /\ SaveAttempted
           /\ Len(history) = Len(df)
           /\ browser = "closed"

\* the rows whose result cell holds a number
NumericCells == {i \in 1..Len(Barrett) : "num" \in DOMAIN Barrett[i]}

\* a step that counts a row counts it once, on one of the two counters
CountedOnce ==
    (history' # history \/ successful_count' # successful_count \/ error_count' # error_count)
        => /\ Len(history') = Len(history) + 1
           /\ \/ successful_count' = successful_count + 1 /\ error_count' = error_count
              \/ successful_count' = successful_count /\ error_count' = error_count + 1

\* C24: the two counters add up to the number of rows handled so far, every
\* row is counted once on one of them, successful_count is the number of rows
\* whose result cell holds a number, and at the summary the sum is the number
\* of input rows
C24_CounterInvariant ==
    /\ [](caller = "batch" =>
            /\ successful_count + error_count = Len(history)
            /\ successful_count = Cardinality(NumericCells)
            /\ pc \in {"row", "input", "calculate", "table", "alternative", "record", "except"}
                  => Len(history) = index - 1
            /\ pc \in {"close", "save", "done"} => successful_count + error_count = Len(df))
    /\ [][CountedOnce]_vars

\* C24 witness: the summary of a run of two rows, one counted on each counter
C24_Witness ==
    /\ caller = "batch"
    /\ pc = "done"
    /\ Len(df) = 2
    /\ successful_count = 1
    /\ error_count = 1

-----------------------------------------------------------------------------
(* save_patient_data: a write that fails *)

\* the write of the results raised
WriteFailed == caller = "batch" /\ pc = "raised" /\ raised = "save" /\ error = "Write error"

\* no backup of the results file was made
NoBackupMade ==
    /\ "APACdata_results.backup.xlsx" \notin DOMAIN files
    /\ "APACdata_results_backup.xlsx" \notin DOMAIN files

\* C29 as stated: after a write that raised once the results file had been
\* renamed, the previous results are at the backup path and no file is at the
\* results path; without a results file beforehand no backup file is made
C29_NothingAtResultsPath ==
    WriteFailed
        => IF HadResults
           THEN /\ "test_results.backup.xlsx" \in DOMAIN files
                /\ files["test_results.backup.xlsx"] = OldResults
                /\ results_file_path \notin DOMAIN files
           ELSE NoBackupMade

\* C29 amended: after a write that raised once the results file had been
\* renamed, the previous results are unchanged at the backup path, and the
\* results path holds no file or only what the failed write left there, never
\* the previous results; without a results file beforehand no backup file is made
C29_BackupSurvivesFailedWrite ==
    WriteFailed
        => IF HadResults
           THEN /\ variant = "multi"
                /\ "test_results.backup.xlsx" \in DOMAIN files
                /\ files["test_results.backup.xlsx"] = OldResults
                /\ results_file_path \in DOMAIN files => files[results_file_path] = Partial
           ELSE NoBackupMade

\* C29 witness: the results file was renamed, the write raised half way, and
\* the backup holds the previous results
C29_Witness ==
    /\ WriteFailed
    /\ HadResults
    /\ files["test_results.backup.xlsx"] = OldResults
    /\ results_file_path \in DOMAIN files
    /\ files[results_file_path] = Partial

-----------------------------------------------------------------------------
(* automate_apacrs.main *)

\* once the frame is loaded, the only write of it is the 'Barrett' cell of the
\* row whose extraction returned a value
BarrettSetOnlyWithValue ==
    /\ pc # "m_load" => df' = df
    /\ (pc # "m_load" /\ Barrett' # Barrett)
          => /\ pc = "m_extract"
             /\ barrett_value' # None
             /\ Barrett' = [Barrett EXCEPT ![index] = Num(barrett_value')]
    /\ (pc = "m_extract" /\ pc' # pc /\ barrett_value' = None) => Barrett' = Barrett
    /\ (pc = "m_row" /\ pc' # "m_extract") => Barrett' = Barrett

\* the rows after the first whose first cell stands for the target
EqualRows ==
    {k \in 2..Len(page.rows) :
        /\ ~page.rows[k].detached
        /\ Len(page.rows[k].cells) >= 1
        /\ ValueOf(ResultFirstCells, page.rows[k].cells[1]) = target}

\* C30: in main a row whose extraction returns None or whose processing
\* raises leaves its 'Barrett' cell and every other cell as they were, only a
\* row with a value has its 'Barrett' cell set, and get_refraction_value
\* returns a value only for a row after the header whose first cell float()
\* makes exactly equal to the target
C30_NoneLeavesCells ==
    /\ [](caller = "main" =>
            /\ (pc # "m_load" /\ pc # "m_launch" /\ barrett_value # None) => EqualRows # {}
            /\ \A i \in 1..Len(history) :
                  history[i].kind # "value" => Barrett[i] = df[i].barrett
            /\ \A i \in 1..Len(history) :
                  history[i].kind = "value" => Barrett[i] = Num(history[i].value))
    /\ [][caller = "main" => BarrettSetOnlyWithValue]_vars

\* C30 witness: the first row raised and kept its cell, the second row got
\* the value of the table row whose first cell equals the target
C30_Witness ==
    /\ caller = "main"
    /\ Len(history) = 2
    /\ history[1].kind = "skipped"
    /\ Barrett[1] = OldCell
    /\ history[2].kind = "value"
    /\ Barrett[2] = Num(Dec(-5, 1))
    /\ page.rows = <<HeaderRow, Row(<<"21.45", "1.75">>), Row(<<" 21.50\n", "-0.5">>)>>

\* C30 witness: the extraction returned None and the row kept its cell
C30_NoneWitness ==
    /\ caller = "main"
    /\ Len(history) = 1
    /\ history[1].kind = "none"
    /\ Barrett[1] = OldCell
    /\ page.rows = <<Row(<<"21.5", "1.25">>)>>

====
